---- MODULE Spec2Model ----
(***************************************************************************)
(* CADExchange: the feature container (UnifiedModel), the fluent builders  *)
(* (SketchBuilder, ExtrudeBuilder, RevolveBuilder) and the tinyxml2        *)
(* serializer (TinyXMLSerializer::Save / Load).                            *)
(*                                                                         *)
(* Feature objects live in a heap and are addressed by handles, so that    *)
(* shared_ptr identity (two handles to one object, two objects with one    *)
(* featureID) is visible.  A double is an integer count of 1/Unit.         *)
(***************************************************************************)
EXTENDS Integers, Sequences, FiniteSets, TLC

VARIABLES
  heap,            \* objects made by callers and builders: handle -> feature
  builders,        \* handles h such that a builder owns heap[h] as m_feature
  m_localCounter,  \* SketchBuilder::m_localCounter, per handle
  counter,         \* the static atomic counter of StringHelper::GenerateUUID
  model,           \* the UnifiedModel under construction
  report,          \* the ValidationReport of the last Validate()
  doc,             \* the file written by the last successful Save
  loaded,          \* the UnifiedModel that Load fills
  lheap,           \* objects allocated by Load: handle -> feature
  ldoc,            \* the document the last Load read
  result,          \* what the last Save or Load returned, and its message
  savedRef,        \* the reference last handed to SaveRefEntity
  refElem,         \* the element SaveRefEntity emitted for it
  decoded,         \* what LoadRefEntity last returned
  threads,         \* per thread: where it is in GenerateUUID, what it holds
  last             \* the last call: operation, receiver, argument, outcome

vars == <<heap, builders, m_localCounter, counter, model, report,
          doc, loaded, lheap, ldoc, result, savedRef, refElem, decoded, threads,
          last>>

-----------------------------------------------------------------------------
(* Bounds of the model *)

MaxObjects == 2
MaxList == 2
MaxSegs == 2
MaxThreads == 2
MaxCalls == 4

-----------------------------------------------------------------------------
(* Numbers: a double is an integer number of 1/Unit *)

Unit == 10 * 10 * 10
EpsilonInv == 1000000

DirectionMinInv == 1000000000

Abs(a) == IF a < 0 THEN -a ELSE a

\* x / Unit < 1 / inv, for an integer x counted in 1/Unit
LessThanInv(x, inv) == x < (Unit \div inv) + (IF Unit % inv = 0 THEN 0 ELSE 1)

\* x / Unit > 1 / inv
GreaterThanInv(x, inv) == x > Unit \div inv

\* |a - b| < GeoUtils::EPSILON
NearlyEqual(a, b) == LessThanInv(Abs(a - b), EpsilonInv)

PointEq(p, q) ==
  NearlyEqual(p[1], q[1]) /\ NearlyEqual(p[2], q[2]) /\ NearlyEqual(p[3], q[3])

Zero3 == <<0, 0, 0>>

RECURSIVE SqrtIter(_, _, _)
SqrtIter(n, lo, hi) ==
  IF lo >= hi THEN lo
  ELSE LET mid == (lo + hi + 1) \div 2
       IN IF mid * mid <= n THEN SqrtIter(n, mid, hi)
          ELSE SqrtIter(n, lo, mid - 1)

\* floor of the square root (std::sqrt on the values the model draws)
Sqrt(n) == SqrtIter(n, 0, 40000)

Length(v) == Sqrt(v[1] * v[1] + v[2] * v[2] + v[3] * v[3])

\* CVector3D::Normalize: divides by the length unless it is <= EPSILON
Normalize(v) ==
  LET len == Length(v)
  IN IF GreaterThanInv(len, EpsilonInv)
     THEN <<(v[1] * Unit) \div len, (v[2] * Unit) \div len, (v[3] * Unit) \div len>>
     ELSE v

-----------------------------------------------------------------------------
(* Identifiers *)

Null == 0

PLANE_XY == "STD_DATUM_XY"
PLANE_YZ == "STD_DATUM_YZ"
PLANE_ZX == "STD_DATUM_ZX"
AXIS_X == "STD_AXIS_X"
AXIS_Y == "STD_AXIS_Y"
AXIS_Z == "STD_AXIS_Z"
ORIGIN == "STD_POINT_ORIGIN"

IsStandardPlane(id) == id = PLANE_XY \/ id = PLANE_YZ \/ id = PLANE_ZX
IsStandardAxis(id) == id = AXIS_X \/ id = AXIS_Y \/ id = AXIS_Z
IsStandardPoint(id) == id = ORIGIN

\* "FB-" + to_string(counter.fetch_add(1) + 1), given the value fetched
GenerateUUID(fetched) == "FB-" \o ToString(fetched + 1)

-----------------------------------------------------------------------------
(* Reference entities.  cls is the concrete class, refType the declared tag *)

NoRef ==
  [cls |-> "null", refType |-> "null", targetFeatureID |-> "",
   parentFeatureID |-> "", topologyIndex |-> -1,
   origin |-> Zero3, xDir |-> Zero3, yDir |-> Zero3, normal |-> Zero3,
   direction |-> Zero3, position |-> Zero3, centroid |-> Zero3,
   uDir |-> Zero3, vDir |-> Zero3, startPoint |-> Zero3, endPoint |-> Zero3,
   midPoint |-> Zero3, segmentLocalID |-> ""]

IsFeatureRefClass(c) ==
  c \in {"CRefFeature", "CRefPlane", "CRefAxis", "CRefPoint", "CRefSketch"}

IsSubTopoClass(c) ==
  c \in {"CRefSubTopo", "CRefFace", "CRefEdge", "CRefVertex", "CRefSketchSeg"}

CRefPlane(id, origin, xDir, yDir, normal) ==
  [NoRef EXCEPT !.cls = "CRefPlane", !.refType = "FEATURE_DATUM_PLANE",
                !.targetFeatureID = id, !.origin = origin, !.xDir = xDir,
                !.yDir = yDir, !.normal = normal]

CRefAxis(id, origin, direction) ==
  [NoRef EXCEPT !.cls = "CRefAxis", !.refType = "FEATURE_DATUM_AXIS",
                !.targetFeatureID = id, !.origin = origin,
                !.direction = direction]

CRefPoint(id, position) ==
  [NoRef EXCEPT !.cls = "CRefPoint", !.refType = "FEATURE_DATUM_POINT",
                !.targetFeatureID = id, !.position = position]

CRefSketch(id) ==
  [NoRef EXCEPT !.cls = "CRefSketch", !.refType = "FEATURE_WHOLE_SKETCH",
                !.targetFeatureID = id]

CRefFeature(type, id) ==
  [NoRef EXCEPT !.cls = "CRefFeature", !.refType = type,
                !.targetFeatureID = id]

CRefFace(parent, index, normal, centroid) ==
  [NoRef EXCEPT !.cls = "CRefFace", !.refType = "TOPO_FACE",
                !.parentFeatureID = parent, !.topologyIndex = index,
                !.normal = normal, !.centroid = centroid,
                !.uDir = <<Unit, 0, 0>>, !.vDir = <<0, Unit, 0>>]

CRefEdge(parent, index, startPoint, endPoint, midPoint) ==
  [NoRef EXCEPT !.cls = "CRefEdge", !.refType = "TOPO_EDGE",
                !.parentFeatureID = parent, !.topologyIndex = index,
                !.startPoint = startPoint, !.endPoint = endPoint,
                !.midPoint = midPoint]

CRefVertex(parent, index, pos) ==
  [NoRef EXCEPT !.cls = "CRefVertex", !.refType = "TOPO_VERTEX",
                !.parentFeatureID = parent, !.topologyIndex = index,
                !.position = pos]

CRefSketchSeg(parent, localID, index) ==
  [NoRef EXCEPT !.cls = "CRefSketchSeg", !.refType = "TOPO_SKETCH_SEG",
                !.parentFeatureID = parent, !.topologyIndex = index,
                !.segmentLocalID = localID]

-----------------------------------------------------------------------------
(* Sketch segments, end conditions, features *)

CSketchSeg(type) ==
  [type |-> type, localID |-> "", isConstruction |-> FALSE,
   startPos |-> Zero3, endPos |-> Zero3, center |-> Zero3, radius |-> 0,
   startAngle |-> 0, endAngle |-> 0, isClockwise |-> FALSE,
   position |-> Zero3]

ExtrudeEndCondition ==
  [type |-> "BLIND", depth |-> 0, offset |-> 0, hasOffset |-> FALSE,
   referenceEntity |-> NoRef, isFlip |-> FALSE, isFlipMaterialSide |-> FALSE]

NoEndCondition == [ExtrudeEndCondition EXCEPT !.type = "nullopt"]

NoOption == [present |-> FALSE, value |-> 0, flagA |-> FALSE, flagB |-> FALSE]

\* DraftOption{angle, outward}
DraftOption(angle, outward) ==
  [present |-> TRUE, value |-> angle, flagA |-> outward, flagB |-> FALSE]

\* ThinWallOption{thickness, isOneSided, isCovered}
ThinWallOption(thickness, isOneSided, isCovered) ==
  [present |-> TRUE, value |-> thickness, flagA |-> isOneSided,
   flagB |-> isCovered]

CRevolveAxis ==
  [kind |-> "Explicit", referenceLocalID |-> "", referenceEntity |-> NoRef,
   origin |-> Zero3, direction |-> Zero3]

\* A default-constructed feature of the given class
CFeature(kind) ==
  [kind |-> kind, featureID |-> "", featureName |-> "", externalID |-> "",
   isSuppressed |-> FALSE,
   \* CSketch
   referencePlane |-> NoRef, segments |-> <<>>, constraints |-> <<>>,
   \* CExtrude
   sketchProfile |-> Null, direction |-> <<0, 0, Unit>>,
   endCondition1 |-> ExtrudeEndCondition, endCondition2 |-> NoEndCondition,
   operation |-> "BOSS", draft |-> NoOption, thinWall |-> NoOption,
   \* CRevolve
   profileSketchID |-> "", axis |-> CRevolveAxis, angleKind |-> "Single",
   primaryAngle |-> 0, secondaryAngle |-> 0]

-----------------------------------------------------------------------------
(* UnifiedModel: m_features is a sequence of handles, m_index and          *)
(* m_externalIndex are maps from strings to handles                        *)

Range(s) == {s[i] : i \in DOMAIN s}

EmptyMap == [k \in {} |-> Null]

\* map[key] = value of std::unordered_map: insert or overwrite
MapPut(map, key, value) ==
  [k \in DOMAIN map \cup {key} |-> IF k = key THEN value ELSE map[k]]

NewModel ==
  [unit |-> "METER", modelName |-> "", m_features |-> <<>>,
   m_index |-> EmptyMap, m_externalIndex |-> EmptyMap]

\* UnifiedModel::AddFeature, for a feature object h of heap hp
AddFeatureTo(m, hp, h) ==
  IF h = Null THEN m
  ELSE [m EXCEPT
          !.m_features = Append(@, h),
          !.m_index = MapPut(@, hp[h].featureID, h),
          !.m_externalIndex =
             IF hp[h].externalID # "" THEN MapPut(@, hp[h].externalID, h)
             ELSE @]

GetFeature(m, featureID) ==
  IF featureID \in DOMAIN m.m_index THEN m.m_index[featureID] ELSE Null

GetFeatureByExternalID(m, externalID) ==
  IF externalID \in DOMAIN m.m_externalIndex THEN m.m_externalIndex[externalID]
  ELSE Null

\* UnifiedModel::GetFeatureIndexByID: the 0-based position of the first
\* feature of the list with the ID, -1 if there is none
GetFeatureIndexByID(m, hp, featureID) ==
  LET hits == {i \in 1..Len(m.m_features) : hp[m.m_features[i]].featureID = featureID}
  IN IF hits = {} THEN -1
     ELSE (CHOOSE i \in hits : \A j \in hits : i <= j) - 1

\* ModelAccessor::GetFeatureByID: the object the accessor returned wraps, the
\* first non-null entry of the list with the ID; Null for a null accessor
GetFeatureByID(m, hp, featureID) ==
  LET hits == {i \in 1..Len(m.m_features) :
                 /\ m.m_features[i] # Null
                 /\ hp[m.m_features[i]].featureID = featureID}
  IN IF hits = {} THEN Null
     ELSE m.m_features[CHOOSE i \in hits : \A j \in hits : i <= j]

\* std::dynamic_pointer_cast<CSketch> of the feature found
GetFeatureAsSketch(m, hp, featureID) ==
  LET base == GetFeature(m, featureID)
  IN IF base # Null /\ hp[base].kind = "Sketch" THEN base ELSE Null

GetFeatureByExternalIDAsSketch(m, hp, externalID) ==
  LET base == GetFeatureByExternalID(m, externalID)
  IN IF base # Null /\ hp[base].kind = "Sketch" THEN base ELSE Null

ClearModel(m) ==
  [m EXCEPT !.m_features = <<>>, !.m_index = EmptyMap,
            !.m_externalIndex = EmptyMap]

NewReport == [isValid |-> TRUE, errors |-> <<>>]

RECURSIVE ValidateFrom(_, _, _, _)
ValidateFrom(m, hp, i, rep) ==
  IF i > Len(m.m_features) THEN rep
  ELSE ValidateFrom(m, hp, i + 1,
         IF hp[m.m_features[i]].featureID = ""
         THEN [isValid |-> FALSE,
               errors |-> Append(rep.errors, "Feature with empty ID found.")]
         ELSE rep)

\* Validate as it would be if it returned at the first empty featureID
ValidateStopsAtFirst(m, hp) ==
  IF \E i \in 1..Len(m.m_features) : hp[m.m_features[i]].featureID = ""
  THEN [isValid |-> FALSE, errors |-> <<"Feature with empty ID found.">>]
  ELSE NewReport

\* UnifiedModel::Validate
ValidateModel(m, hp) == ValidateFrom(m, hp, 1, NewReport)

-----------------------------------------------------------------------------
(* The XML document: elements with attributes and child elements, as      *)
(* tinyxml2 holds them.  A string attribute is a string, a bool attribute  *)
(* the token tinyxml2 writes, a number the value its text denotes.         *)

\* the null XMLElement pointer
NoElement == [name |-> "", attrs |-> EmptyMap, children |-> <<>>]

\* XMLDocument::NewElement
NewElement(name) == [NoElement EXCEPT !.name = name]

\* XMLElement::SetAttribute
SetAttribute(element, name, value) ==
  [element EXCEPT !.attrs = MapPut(@, name, value)]

\* XMLNode::InsertEndChild
InsertEndChild(parent, child) ==
  [parent EXCEPT !.children = Append(@, child)]

HasAttribute(element, name) == name \in DOMAIN element.attrs

\* XMLElement::Attribute, for an attribute that is there
Attribute(element, name) == element.attrs[name]

\* the children with the given tag, in document order: FirstChildElement
\* followed by NextSiblingElement until null
ChildElements(element, name) ==
  SelectSeq(element.children, LAMBDA c : c.name = name)

\* XMLNode::FirstChildElement
FirstChildElement(element, name) ==
  IF ChildElements(element, name) = <<>> THEN NoElement
  ELSE Head(ChildElements(element, name))

\* the file at filePath: absent, or a document with at most one root child
NoDoc == [exists |-> FALSE, root |-> NoElement]

XMLDocument(root) == [exists |-> TRUE, root |-> root]

\* tinyxml2 writes a bool attribute as "true" or "false"
BoolToStr(b) == IF b THEN "true" ELSE "false"

\* XMLElement::QueryBoolAttribute: leaves the variable alone when the
\* attribute is absent or is no boolean token
QueryBoolAttribute(element, name, default) ==
  IF ~HasAttribute(element, name) THEN default
  ELSE IF Attribute(element, name) \in {"true", "True", "TRUE", "1"} THEN TRUE
  ELSE IF Attribute(element, name) \in {"false", "False", "FALSE", "0"} THEN FALSE
  ELSE default

\* QueryIntAttribute / QueryDoubleAttribute / Attribute with a default
QueryAttribute(element, name, default) ==
  IF HasAttribute(element, name) THEN Attribute(element, name) ELSE default

RECURSIVE DigitCount(_)
DigitCount(n) == IF n < 10 THEN 1 ELSE 1 + DigitCount(n \div 10)

RECURSIVE Pow10(_)
Pow10(k) == IF k <= 0 THEN 1 ELSE 10 * Pow10(k - 1)

\* the value denoted by x printed with the given number of significant
\* decimal digits (printf %g), rounding to nearest
RoundSignificant(x, digits) ==
  LET a == Abs(x)
      step == Pow10(DigitCount(a) - digits)
      r == ((a + step \div 2) \div step) * step
  IN IF x < 0 THEN -r ELSE r

\* operator<< of std::ostringstream on a double: precision 6
StreamPrecision == 6

\* tinyxml2 prints a double attribute with "%.17g"
XMLPrecision == 17

\* FormatTriple, FormatPoint, FormatVector, SavePoint3D, SaveVector3D
FormatTriple(v) ==
  <<RoundSignificant(v[1], StreamPrecision),
    RoundSignificant(v[2], StreamPrecision),
    RoundSignificant(v[3], StreamPrecision)>>

\* SetAttribute(name, double)
FormatDouble(x) == RoundSignificant(x, XMLPrecision)

\* ParsePointAttribute, ParseVectorAttribute, LoadPoint3D, LoadVector3D: the
\* zero triple when the attribute is absent or TryParseTriple fails (a text
\* that is no triple is a tuple of another length)
ParseTriple(element, name) ==
  IF HasAttribute(element, name) /\ Len(Attribute(element, name)) = 3
  THEN Attribute(element, name) ELSE Zero3

\* ToLower, on the tokens of the format
ToLower(str) ==
  CASE str = "Meter" -> "meter" [] str = "Centimeter" -> "centimeter"
    [] str = "Millimeter" -> "millimeter" [] str = "Inch" -> "inch"
    [] str = "Foot" -> "foot"
    [] str = "BOSS" -> "boss" [] str = "Cut" -> "cut" [] str = "Merge" -> "merge"
    [] str = "Blind" -> "blind" [] str = "ThroughAll" -> "throughall"
    [] str = "UpToNext" -> "uptonext" [] str = "UpToFace" -> "uptoface"
    [] str = "UpToVertex" -> "uptovertex" [] str = "MidPlane" -> "midplane"
    [] str = "Plane" -> "plane" [] str = "Axis" -> "axis"
    [] str = "Point" -> "point" [] str = "Sketch" -> "sketch"
    [] str = "Face" -> "face" [] str = "Edge" -> "edge"
    [] str = "Vertex" -> "vertex" [] str = "SketchSeg" -> "sketchseg"
    [] str = "Feature" -> "feature" [] str = "Unknown" -> "unknown"
    [] OTHER -> str

UnitTypeToString(type) ==
  CASE type = "METER" -> "Meter" [] type = "CENTIMETER" -> "Centimeter"
    [] type = "MILLIMETER" -> "Millimeter" [] type = "INCH" -> "Inch"
    [] type = "FOOT" -> "Foot" [] OTHER -> "Unknown"

\* std::nullopt is "nullopt"
UnitTypeFromString(text) ==
  CASE ToLower(text) = "meter" -> "METER"
    [] ToLower(text) = "centimeter" -> "CENTIMETER"
    [] ToLower(text) = "millimeter" -> "MILLIMETER"
    [] ToLower(text) = "inch" -> "INCH" [] ToLower(text) = "foot" -> "FOOT"
    [] OTHER -> "nullopt"

BooleanOpToString(op) ==
  CASE op = "BOSS" -> "BOSS" [] op = "CUT" -> "Cut" [] op = "MERGE" -> "Merge"
    [] OTHER -> "Unknown"

BooleanOpFromString(text) ==
  CASE ToLower(text) = "boss" -> "BOSS" [] ToLower(text) = "cut" -> "CUT"
    [] ToLower(text) = "merge" -> "MERGE" [] OTHER -> "nullopt"

ExtrudeEndConditionTypeToString(type) ==
  CASE type = "BLIND" -> "Blind" [] type = "THROUGH_ALL" -> "ThroughAll"
    [] type = "UP_TO_NEXT" -> "UpToNext" [] type = "UP_TO_FACE" -> "UpToFace"
    [] type = "UP_TO_VERTEX" -> "UpToVertex" [] type = "MID_PLANE" -> "MidPlane"
    [] OTHER -> "Unknown"

ExtrudeEndConditionTypeFromString(text) ==
  CASE ToLower(text) = "blind" -> "BLIND"
    [] ToLower(text) = "throughall" -> "THROUGH_ALL"
    [] ToLower(text) = "uptonext" -> "UP_TO_NEXT"
    [] ToLower(text) = "uptoface" -> "UP_TO_FACE"
    [] ToLower(text) = "uptovertex" -> "UP_TO_VERTEX"
    [] ToLower(text) = "midplane" -> "MID_PLANE"
    [] OTHER -> "nullopt"

-----------------------------------------------------------------------------
(* kRefSerializerEntries: one save and one load function per RefType *)

RefTypes ==
  {"FEATURE_DATUM_PLANE", "FEATURE_DATUM_AXIS", "FEATURE_DATUM_POINT",
   "FEATURE_WHOLE_SKETCH", "TOPO_FACE", "TOPO_EDGE", "TOPO_VERTEX",
   "TOPO_SKETCH_SEG"}

\* the name of the entry FindRefEntry finds
RefTypeToString(type) ==
  CASE type = "FEATURE_DATUM_PLANE" -> "Plane"
    [] type = "FEATURE_DATUM_AXIS" -> "Axis"
    [] type = "FEATURE_DATUM_POINT" -> "Point"
    [] type = "FEATURE_WHOLE_SKETCH" -> "Sketch"
    [] type = "TOPO_FACE" -> "Face" [] type = "TOPO_EDGE" -> "Edge"
    [] type = "TOPO_VERTEX" -> "Vertex" [] type = "TOPO_SKETCH_SEG" -> "SketchSeg"
    [] OTHER -> "Unknown"

\* FindRefEntryByName on the lowered text; std::nullopt is "nullopt"
RefTypeFromString(text) ==
  IF \E t \in RefTypes : ToLower(RefTypeToString(t)) = ToLower(text)
  THEN CHOOSE t \in RefTypes : ToLower(RefTypeToString(t)) = ToLower(text)
  ELSE "nullopt"

SaveFeatureReference(element, ref) ==
  IF IsFeatureRefClass(ref.cls)
  THEN SetAttribute(element, "TargetFeatureID", ref.targetFeatureID)
  ELSE element

LoadFeatureReference(element, refType) ==
  [NoRef EXCEPT !.cls = "CRefFeature", !.refType = refType,
                !.targetFeatureID = QueryAttribute(element, "TargetFeatureID", "")]

\* the ParentFeatureID and TopologyIndex attributes every sub-topology entry
\* writes first
SaveSubTopo(element, ref) ==
  SetAttribute(SetAttribute(element, "ParentFeatureID", ref.parentFeatureID),
               "TopologyIndex", ref.topologyIndex)

\* entry->save(refElem, ref) of the entry registered for ref.refType
RefEntrySave(element, ref) ==
  CASE ref.refType = "FEATURE_DATUM_PLANE" ->
         IF ref.cls = "CRefPlane"
         THEN SetAttribute(SetAttribute(SetAttribute(SetAttribute(SetAttribute(
                element, "TargetFeatureID", ref.targetFeatureID),
                "Origin", FormatTriple(ref.origin)),
                "XDir", FormatTriple(ref.xDir)),
                "YDir", FormatTriple(ref.yDir)),
                "Normal", FormatTriple(ref.normal))
         ELSE element
    [] ref.refType \in {"FEATURE_DATUM_AXIS", "FEATURE_DATUM_POINT"} ->
         SaveFeatureReference(element, ref)
    [] ref.refType = "FEATURE_WHOLE_SKETCH" ->
         IF ref.cls = "CRefSketch"
         THEN SetAttribute(element, "TargetFeatureID", ref.targetFeatureID)
         ELSE element
    [] ref.refType = "TOPO_FACE" ->
         IF ref.cls = "CRefFace"
         THEN SetAttribute(SetAttribute(SetAttribute(SetAttribute(
                SaveSubTopo(element, ref),
                "U", FormatTriple(ref.uDir)),
                "V", FormatTriple(ref.vDir)),
                "Normal", FormatTriple(ref.normal)),
                "Center", FormatTriple(ref.centroid))
         ELSE element
    [] ref.refType = "TOPO_EDGE" ->
         IF ref.cls = "CRefEdge"
         THEN SetAttribute(SaveSubTopo(element, ref),
                           "MidPoint", FormatTriple(ref.midPoint))
         ELSE element
    [] ref.refType = "TOPO_VERTEX" ->
         IF ref.cls = "CRefVertex"
         THEN SetAttribute(SaveSubTopo(element, ref),
                           "Position", FormatTriple(ref.position))
         ELSE element
    [] ref.refType = "TOPO_SKETCH_SEG" ->
         IF ref.cls = "CRefSketchSeg"
         THEN IF ref.segmentLocalID # ""
              THEN SetAttribute(SaveSubTopo(element, ref),
                                "SegmentLocalID", ref.segmentLocalID)
              ELSE SaveSubTopo(element, ref)
         ELSE element

\* TinyXMLSerializer::SaveRefEntity: parent with the reference element added
SaveRefEntity(parent, name, ref) ==
  IF ref.cls = "null" THEN parent
  ELSE IF ref.refType \in RefTypes
  THEN InsertEndChild(parent,
         SetAttribute(RefEntrySave(NewElement(name), ref),
                      "Type", RefTypeToString(ref.refType)))
  ELSE InsertEndChild(parent,
         SetAttribute(SaveFeatureReference(NewElement(name), ref),
                      "Type", RefTypeToString(ref.refType)))

\* CVector3D::Cross
Cross(a, b) ==
  <<(a[2] * b[3] - a[3] * b[2]) \div Unit,
    (a[3] * b[1] - a[1] * b[3]) \div Unit,
    (a[1] * b[2] - a[2] * b[1]) \div Unit>>

ComputePlaneYAxis(normal, xDir) == Normalize(Cross(normal, xDir))

\* the ParentFeatureID and TopologyIndex every sub-topology entry reads
LoadSubTopo(element, cls, refType) ==
  [NoRef EXCEPT !.cls = cls, !.refType = refType,
     !.parentFeatureID = QueryAttribute(element, "ParentFeatureID", ""),
     !.topologyIndex = QueryAttribute(element, "TopologyIndex", NoRef.topologyIndex)]

\* entry->load(element) of the entry registered for the type
RefEntryLoad(element, type) ==
  CASE type = "FEATURE_DATUM_PLANE" ->
         [NoRef EXCEPT !.cls = "CRefPlane", !.refType = type,
            !.targetFeatureID = QueryAttribute(element, "TargetFeatureID", ""),
            !.origin = ParseTriple(element, "Origin"),
            !.xDir = ParseTriple(element, "XDir"),
            !.normal = ParseTriple(element, "Normal"),
            !.yDir = IF HasAttribute(element, "YDir")
                     THEN ParseTriple(element, "YDir")
                     ELSE ComputePlaneYAxis(ParseTriple(element, "Normal"),
                                            ParseTriple(element, "XDir"))]
    [] type \in {"FEATURE_DATUM_AXIS", "FEATURE_DATUM_POINT"} ->
         LoadFeatureReference(element, type)
    [] type = "FEATURE_WHOLE_SKETCH" ->
         [NoRef EXCEPT !.cls = "CRefSketch", !.refType = type,
            !.targetFeatureID = QueryAttribute(element, "TargetFeatureID", "")]
    [] type = "TOPO_FACE" ->
         [LoadSubTopo(element, "CRefFace", type) EXCEPT
            !.uDir = ParseTriple(element, "U"),
            !.vDir = ParseTriple(element, "V"),
            !.normal = ParseTriple(element, "Normal"),
            !.centroid = ParseTriple(element, "Center")]
    [] type = "TOPO_EDGE" ->
         [LoadSubTopo(element, "CRefEdge", type) EXCEPT
            !.midPoint = ParseTriple(element, "MidPoint")]
    [] type = "TOPO_VERTEX" ->
         [LoadSubTopo(element, "CRefVertex", type) EXCEPT
            !.position = ParseTriple(element, "Position")]
    [] type = "TOPO_SKETCH_SEG" ->
         [LoadSubTopo(element, "CRefSketchSeg", type) EXCEPT
            !.segmentLocalID = QueryAttribute(element, "SegmentLocalID", "")]

\* TinyXMLSerializer::LoadRefEntity
LoadRefEntity(element) ==
  IF element = NoElement \/ ~HasAttribute(element, "Type") THEN NoRef
  ELSE LET resolvedType == RefTypeFromString(Attribute(element, "Type"))
       IN IF resolvedType # "nullopt" THEN RefEntryLoad(element, resolvedType)
          ELSE IF ToLower(Attribute(element, "Type")) = "feature"
          THEN LoadFeatureReference(element, "FEATURE_DATUM_PLANE")
          ELSE NoRef

-----------------------------------------------------------------------------
(* TinyXMLSerializer: saving *)

\* static_cast<int> of CSketchConstraint::ConstraintType; a value that is no
\* enumerator is named by its ordinal
ConstraintTypeToInt(type) ==
  CASE type = "HORIZONTAL" -> 0 [] type = "VERTICAL" -> 1
    [] type = "COINCIDENT" -> 2 [] type = "CONCENTRIC" -> 3
    [] type = "TANGENT" -> 4 [] type = "EQUAL" -> 5 [] type = "PARALLEL" -> 6
    [] type = "PERPENDICULAR" -> 7 [] type = "DIMENSIONAL" -> 8
    [] OTHER -> CHOOSE n \in 9..99 : ToString(n) = type

ConstraintTypeFromInt(n) ==
  CASE n = 0 -> "HORIZONTAL" [] n = 1 -> "VERTICAL" [] n = 2 -> "COINCIDENT"
    [] n = 3 -> "CONCENTRIC" [] n = 4 -> "TANGENT" [] n = 5 -> "EQUAL"
    [] n = 6 -> "PARALLEL" [] n = 7 -> "PERPENDICULAR" [] n = 8 -> "DIMENSIONAL"
    [] OTHER -> ToString(n)

\* static_cast<int> of CRevolve::AngleKind
AngleKindToInt(kind) ==
  CASE kind = "Single" -> 0 [] kind = "TwoWay" -> 1 [] kind = "Symmetric" -> 2

\* static_cast<int> of CRevolveAxis::Kind
AxisKindToInt(kind) ==
  CASE kind = "SketchLine" -> 0 [] kind = "Explicit" -> 1 [] kind = "Reference" -> 2

\* the IDs joined with ",": a text is the sequence of its comma-separated
\* fields, and the empty text is one empty field
JoinEntities(ids) == IF ids = <<>> THEN <<"">> ELSE ids

\* std::getline(ss, item, ',') until it fails: a last field that is empty
\* yields no item
SplitEntities(fields) ==
  IF fields # <<>> /\ fields[Len(fields)] = ""
  THEN SubSeq(fields, 1, Len(fields) - 1) ELSE fields

\* TinyXMLSerializer::SaveSketchSeg
SaveSketchSeg(parent, seg) ==
  LET e0 == SetAttribute(NewElement("Segment"), "LocalID", seg.localID)
      e1 == IF seg.type # "POINT"
            THEN SetAttribute(e0, "Construction", BoolToStr(seg.isConstruction))
            ELSE e0
      e2 == CASE seg.type = "LINE" ->
                   SetAttribute(SetAttribute(SetAttribute(e1, "Type", "Line"),
                     "Start", FormatTriple(seg.startPos)),
                     "End", FormatTriple(seg.endPos))
              [] seg.type = "CIRCLE" ->
                   SetAttribute(SetAttribute(SetAttribute(e1, "Type", "Circle"),
                     "Center", FormatTriple(seg.center)),
                     "Radius", FormatDouble(seg.radius))
              [] seg.type = "ARC" ->
                   SetAttribute(SetAttribute(SetAttribute(SetAttribute(
                     SetAttribute(SetAttribute(e1, "Type", "Arc"),
                     "Center", FormatTriple(seg.center)),
                     "Radius", FormatDouble(seg.radius)),
                     "StartAngle", FormatDouble(seg.startAngle)),
                     "EndAngle", FormatDouble(seg.endAngle)),
                     "Clockwise", BoolToStr(seg.isClockwise))
              [] seg.type = "POINT" ->
                   SetAttribute(SetAttribute(e1, "Type", "Point"),
                     "Position", FormatTriple(seg.position))
              [] OTHER -> e1
  IN InsertEndChild(parent, e2)

\* TinyXMLSerializer::SaveConstraint
SaveConstraint(parent, constraint) ==
  InsertEndChild(parent,
    SetAttribute(SetAttribute(SetAttribute(NewElement("Constraint"),
      "Type", ConstraintTypeToInt(constraint.type)),
      "Dimension", FormatDouble(constraint.dimensionValue)),
      "Entities", JoinEntities(constraint.entityLocalIDs)))

RECURSIVE SaveSegments(_, _, _)
\* for (const auto &seg : sketch->segments) SaveSketchSeg(doc, segsElem, seg)
SaveSegments(segsElem, segments, i) ==
  IF i > Len(segments) THEN segsElem
  ELSE SaveSegments(SaveSketchSeg(segsElem, segments[i]), segments, i + 1)

RECURSIVE SaveConstraints(_, _, _)
\* for (const auto &con : sketch->constraints) SaveConstraint(doc, consElem, con)
SaveConstraints(consElem, constraints, i) ==
  IF i > Len(constraints) THEN consElem
  ELSE SaveConstraints(SaveConstraint(consElem, constraints[i]), constraints, i + 1)

\* TinyXMLSerializer::SaveSketch
SaveSketch(element, sketch) ==
  InsertEndChild(
    InsertEndChild(
      SaveRefEntity(element, "ReferencePlane", sketch.referencePlane),
      SaveSegments(NewElement("Segments"), sketch.segments, 1)),
    SaveConstraints(NewElement("Constraints"), sketch.constraints, 1))

\* the EndCondition1 element of SaveExtrude
SaveEndCondition1(cond) ==
  SaveRefEntity(
    SetAttribute(SetAttribute(SetAttribute(SetAttribute(SetAttribute(
      SetAttribute(NewElement("EndCondition1"),
      "Type", ExtrudeEndConditionTypeToString(cond.type)),
      "Depth", FormatDouble(cond.depth)),
      "Offset", FormatDouble(cond.offset)),
      "HasOffset", BoolToStr(cond.hasOffset)),
      "Flip", BoolToStr(cond.isFlip)),
      "FlipMaterialSide", BoolToStr(cond.isFlipMaterialSide)),
    "ReferenceEntity", cond.referenceEntity)

\* the EndCondition2 element of SaveExtrude
SaveEndCondition2(cond) ==
  SetAttribute(SetAttribute(SetAttribute(SetAttribute(
    NewElement("EndCondition2"),
    "Type", ExtrudeEndConditionTypeToString(cond.type)),
    "Depth", FormatDouble(cond.depth)),
    "HasOffset", BoolToStr(cond.hasOffset)),
    "Offset", FormatDouble(cond.offset))

\* TinyXMLSerializer::SaveExtrude; hp resolves the profile pointer
SaveExtrude(element, extrude, hp) ==
  LET e0 == IF extrude.sketchProfile # Null
            THEN InsertEndChild(element,
                   SetAttribute(NewElement("ProfileSketchID"), "Value",
                                hp[extrude.sketchProfile].featureID))
            ELSE element
      e1 == InsertEndChild(e0,
              SetAttribute(NewElement("Direction"), "Value",
                           FormatTriple(extrude.direction)))
      e2 == SetAttribute(e1, "Operation", BooleanOpToString(extrude.operation))
      e3 == InsertEndChild(e2, SaveEndCondition1(extrude.endCondition1))
  IN IF extrude.endCondition2.type # "nullopt"
     THEN InsertEndChild(e3, SaveEndCondition2(extrude.endCondition2))
     ELSE e3

\* TinyXMLSerializer::SaveRevolve
SaveRevolve(element, revolve) ==
  InsertEndChild(
    SetAttribute(SetAttribute(SetAttribute(SetAttribute(element,
      "ProfileSketchID", revolve.profileSketchID),
      "AngleKind", AngleKindToInt(revolve.angleKind)),
      "PrimaryAngle", FormatDouble(revolve.primaryAngle)),
      "SecondaryAngle", FormatDouble(revolve.secondaryAngle)),
    SaveRefEntity(
      SetAttribute(SetAttribute(SetAttribute(SetAttribute(NewElement("Axis"),
        "Kind", AxisKindToInt(revolve.axis.kind)),
        "RefLocalID", revolve.axis.referenceLocalID),
        "Origin", FormatTriple(revolve.axis.origin)),
        "Direction", FormatTriple(revolve.axis.direction)),
      "ReferenceEntity", revolve.axis.referenceEntity))

\* TinyXMLSerializer::SaveFeature, for the object h of heap hp
SaveFeature(parent, hp, h) ==
  IF h = Null THEN parent
  ELSE LET feature == hp[h]
           e0 == NewElement("Feature")
           e1 == CASE feature.kind = "Sketch" ->
                        SaveSketch(SetAttribute(e0, "Type", "Sketch"), feature)
                   [] feature.kind = "Extrude" ->
                        SaveExtrude(SetAttribute(e0, "Type", "Extrude"),
                                    feature, hp)
                   [] feature.kind = "Revolve" ->
                        SaveRevolve(SetAttribute(e0, "Type", "Revolve"), feature)
                   [] OTHER -> SetAttribute(e0, "Type", "Unknown")
       IN InsertEndChild(parent,
            SetAttribute(SetAttribute(SetAttribute(e1,
              "ID", feature.featureID),
              "Name", feature.featureName),
              "Suppressed", BoolToStr(feature.isSuppressed)))

RECURSIVE SaveFeatures(_, _, _, _)
\* for (const auto &feature : model.GetFeatures()) SaveFeature(...)
SaveFeatures(root, m, hp, i) ==
  IF i > Len(m.m_features) THEN root
  ELSE SaveFeatures(SaveFeature(root, hp, m.m_features[i]), m, hp, i + 1)

\* the document TinyXMLSerializer::Save builds before doc.SaveFile
SaveDocument(m, hp) ==
  XMLDocument(
    SaveFeatures(
      SetAttribute(SetAttribute(SetAttribute(NewElement("UnifiedModel"),
        "UnitSystem", UnitTypeToString(m.unit)),
        "ModelName", m.modelName),
        "FeatureCount", Len(m.m_features)),
      m, hp, 1))

-----------------------------------------------------------------------------
(* TinyXMLSerializer: loading *)

\* TinyXMLSerializer::LoadSketchSeg; a null segment has type "null"
LoadSketchSeg(element) ==
  LET type == QueryAttribute(element, "Type", "")
      seg == CASE type = "Line" ->
                    [CSketchSeg("LINE") EXCEPT
                       !.startPos = ParseTriple(element, "Start"),
                       !.endPos = ParseTriple(element, "End")]
               [] type = "Circle" ->
                    [CSketchSeg("CIRCLE") EXCEPT
                       !.center = ParseTriple(element, "Center"),
                       !.radius = QueryAttribute(element, "Radius", 0)]
               [] OTHER -> CSketchSeg("null")
  IN IF seg.type = "null" THEN seg
     ELSE [seg EXCEPT
             !.localID = QueryAttribute(element, "LocalID", ""),
             !.isConstruction = QueryBoolAttribute(element, "Construction", FALSE)]

\* TinyXMLSerializer::LoadConstraint
LoadConstraint(element) ==
  [type |-> ConstraintTypeFromInt(QueryAttribute(element, "Type", 0)),
   entityLocalIDs |->
     IF HasAttribute(element, "Entities")
     THEN SplitEntities(Attribute(element, "Entities")) ELSE <<>>,
   dimensionValue |-> QueryAttribute(element, "Dimension", 0)]

RECURSIVE LoadSegments(_, _)
\* the loop of LoadSketch over the Segment elements: null segments are skipped
LoadSegments(elements, i) ==
  IF i > Len(elements) THEN <<>>
  ELSE IF LoadSketchSeg(elements[i]).type = "null"
  THEN LoadSegments(elements, i + 1)
  ELSE <<LoadSketchSeg(elements[i])>> \o LoadSegments(elements, i + 1)

\* TinyXMLSerializer::LoadSketch
LoadSketch(element, sketch) ==
  [sketch EXCEPT
     !.referencePlane = LoadRefEntity(FirstChildElement(element, "ReferencePlane")),
     !.segments =
        LoadSegments(ChildElements(FirstChildElement(element, "Segments"),
                                   "Segment"), 1),
     !.constraints =
        LET cons == ChildElements(FirstChildElement(element, "Constraints"),
                                  "Constraint")
        IN [i \in 1..Len(cons) |-> LoadConstraint(cons[i])]]

\* what LoadExtrude reads of an EndCondition element: the type and the depth
LoadEndCondition(element, cond) ==
  LET type == IF HasAttribute(element, "Type")
              THEN ExtrudeEndConditionTypeFromString(Attribute(element, "Type"))
              ELSE "nullopt"
  IN [cond EXCEPT !.type = IF type # "nullopt" THEN type ELSE @,
                  !.depth = QueryAttribute(element, "Depth", @)]

\* TinyXMLSerializer::LoadExtrude; placeholder is the handle the placeholder
\* sketch gets if one is made
LoadExtrude(element, extrude, placeholder) ==
  LET profileElem == FirstChildElement(element, "ProfileSketchID")
      directionElem == FirstChildElement(element, "Direction")
      ec1 == FirstChildElement(element, "EndCondition1")
      ec2 == FirstChildElement(element, "EndCondition2")
      op == IF HasAttribute(element, "Operation")
            THEN BooleanOpFromString(Attribute(element, "Operation"))
            ELSE "nullopt"
  IN [extrude EXCEPT
        !.sketchProfile =
           IF profileElem # NoElement /\ HasAttribute(profileElem, "Value")
           THEN placeholder ELSE @,
        !.direction = IF directionElem # NoElement
                      THEN ParseTriple(directionElem, "Value") ELSE @,
        !.operation = IF op # "nullopt" THEN op ELSE @,
        !.endCondition1 = IF ec1 # NoElement
                          THEN LoadEndCondition(ec1, @) ELSE @,
        !.endCondition2 = IF ec2 # NoElement
                          THEN LoadEndCondition(ec2, ExtrudeEndCondition) ELSE @]

\* the placeholder sketch LoadExtrude makes: a CSketch with the ID alone
Placeholder(element) ==
  [CFeature("Sketch") EXCEPT
     !.featureID = Attribute(FirstChildElement(element, "ProfileSketchID"), "Value")]

MakesPlaceholder(element) ==
  /\ QueryAttribute(element, "Type", "") = "Extrude"
  /\ FirstChildElement(element, "ProfileSketchID") # NoElement
  /\ HasAttribute(FirstChildElement(element, "ProfileSketchID"), "Value")

\* TinyXMLSerializer::LoadRevolve: the body is empty
LoadRevolve(element, revolve) == revolve

\* TinyXMLSerializer::LoadFeature: the heap with the objects it made, and the
\* handle of the feature or Null
LoadFeature(element, hp) ==
  LET type == QueryAttribute(element, "Type", "")
      hp1 == IF MakesPlaceholder(element)
             THEN Append(hp, Placeholder(element)) ELSE hp
      made == CASE type = "Sketch" -> LoadSketch(element, CFeature("Sketch"))
                [] type = "Extrude" ->
                     LoadExtrude(element, CFeature("Extrude"), Len(hp1))
                [] type = "Revolve" -> LoadRevolve(element, CFeature("Revolve"))
                [] OTHER -> CFeature("null")
  IN IF made.kind = "null" THEN [heap |-> hp, feature |-> Null]
     ELSE [heap |-> Append(hp1,
                      [made EXCEPT
                         !.featureID = QueryAttribute(element, "ID", @),
                         !.featureName = QueryAttribute(element, "Name", @),
                         !.isSuppressed =
                            QueryBoolAttribute(element, "Suppressed", FALSE)]),
           feature |-> Len(hp1) + 1]

RECURSIVE LoadFeatures(_, _, _, _)
\* the loop of Load over the Feature elements of the root
LoadFeatures(elements, i, m, hp) ==
  IF i > Len(elements) THEN [model |-> m, heap |-> hp]
  ELSE LET r == LoadFeature(elements[i], hp)
       IN LoadFeatures(elements, i + 1, AddFeatureTo(m, r.heap, r.feature), r.heap)

\* Load as it would be if it cleared the model before looking for the root
LoadDocumentClearsFirst(d, m) ==
  IF ~d.exists
  THEN [ok |-> FALSE, error |-> "XML_ERROR_FILE_NOT_FOUND", model |-> ClearModel(m),
        heap |-> <<>>]
  ELSE IF d.root.name # "UnifiedModel"
  THEN [ok |-> FALSE, error |-> "Missing UnifiedModel root element",
        model |-> ClearModel(m), heap |-> <<>>]
  ELSE LET unitOpt == IF HasAttribute(d.root, "UnitSystem")
                      THEN UnitTypeFromString(Attribute(d.root, "UnitSystem"))
                      ELSE "nullopt"
           m1 == [m EXCEPT !.unit = IF unitOpt # "nullopt" THEN unitOpt ELSE @,
                           !.modelName = QueryAttribute(d.root, "ModelName", @)]
           r == LoadFeatures(ChildElements(d.root, "Feature"), 1,
                             ClearModel(m1), <<>>)
       IN [ok |-> TRUE, error |-> "", model |-> r.model, heap |-> r.heap]

\* TinyXMLSerializer::Load into the model m: the value returned, the error
\* message, the model and the objects made
LoadDocument(d, m) ==
  IF ~d.exists
  THEN [ok |-> FALSE, error |-> "XML_ERROR_FILE_NOT_FOUND", model |-> m, heap |-> <<>>]
  ELSE IF d.root.name # "UnifiedModel"
  THEN [ok |-> FALSE, error |-> "Missing UnifiedModel root element",
        model |-> m, heap |-> <<>>]
  ELSE LET unitOpt == IF HasAttribute(d.root, "UnitSystem")
                      THEN UnitTypeFromString(Attribute(d.root, "UnitSystem"))
                      ELSE "nullopt"
           m1 == [m EXCEPT !.unit = IF unitOpt # "nullopt" THEN unitOpt ELSE @,
                           !.modelName = QueryAttribute(d.root, "ModelName", @)]
           r == LoadFeatures(ChildElements(d.root, "Feature"), 1,
                             ClearModel(m1), <<>>)
       IN [ok |-> TRUE, error |-> "", model |-> r.model, heap |-> r.heap]

-----------------------------------------------------------------------------
(* Calls and their outcomes *)

Kinds == {"Sketch", "Extrude", "Revolve"}

Handles == 1..Len(heap)

\* what a call did: threw is "none" or the exception class, what is the ID
\* its message names, or the string a call that adds a segment returned
Call(op, h, arg, threw, what) ==
  [op |-> op, h |-> h, arg |-> arg, threw |-> threw, what |-> what]

Ok == [threw |-> "none", what |-> ""]

Thrown(class, id) == [threw |-> class, what |-> id]

ioVars == <<doc, loaded, lheap, ldoc, result>>

codecVars == <<savedRef, refElem, decoded>>

\* the call throws before it assigns anything
Fail(op, h, arg, ex) ==
  /\ last' = Call(op, h, arg, ex.threw, ex.what)
  /\ UNCHANGED <<heap, builders, m_localCounter, counter, model, report, ioVars, codecVars, threads>>

\* the call assigns to the builder's m_feature and returns
Assign(op, b, arg, feature) ==
  /\ heap' = [heap EXCEPT ![b] = feature]
  /\ last' = Call(op, b, arg, "none", "")
  /\ UNCHANGED <<builders, m_localCounter, counter, model, report, ioVars, codecVars, threads>>

IsBuilder(b, kind) == b \in builders /\ heap[b].kind = kind

-----------------------------------------------------------------------------
(* Threads that construct builders: each call of GenerateUUID is a         *)
(* fetch_add on the shared counter followed by the formatting of the ID    *)

Threads == 1..MaxThreads

\* a thread outside GenerateUUID that has been handed no ID yet
Idle == [pc |-> "idle", fetched |-> 0, ids |-> <<>>]

-----------------------------------------------------------------------------
(* Initial state: nothing constructed, an empty model, no file *)

Init ==
  /\ heap = <<>>
  /\ builders = {}
  /\ m_localCounter = <<>>
  /\ counter = 0
  /\ model = NewModel
  /\ report = NewReport
  /\ doc = NoDoc
  /\ loaded = NewModel
  /\ lheap = <<>>
  /\ ldoc = NoDoc
  /\ result = [ok |-> TRUE, error |-> ""]
  /\ savedRef = NoRef
  /\ refElem = NoElement
  /\ decoded = NoRef
  /\ threads = [t \in Threads |-> Idle]
  /\ last = Call("new", Null, 0, "none", "")

-----------------------------------------------------------------------------
(* The container and the builder base *)

\* std::make_shared<CSketch>() and assignments to its public fields by a caller
MakeFeature(kind, id) ==
  /\ Len(heap) < MaxObjects
  /\ heap' = Append(heap, [CFeature(kind) EXCEPT !.featureID = id])
  /\ m_localCounter' = Append(m_localCounter, 0)
  /\ last' = Call("MakeFeature", Len(heap) + 1, 0, "none", "")
  /\ UNCHANGED <<builders, counter, model, report, ioVars, codecVars, threads>>

\* FeatureBuilderBase<T>::FeatureBuilderBase(model, name)
NewBuilder(kind, name) ==
  /\ Len(heap) < MaxObjects
  /\ heap' = Append(heap, [CFeature(kind) EXCEPT
                             !.featureName = name,
                             !.featureID = GenerateUUID(counter)])
  /\ counter' = counter + 1
  /\ builders' = builders \cup {Len(heap) + 1}
  /\ m_localCounter' = Append(m_localCounter, 0)
  /\ last' = Call("NewBuilder", Len(heap) + 1, 0, "none", "")
  /\ UNCHANGED <<model, report, ioVars, codecVars, threads>>

\* FeatureBuilderBase::SetExternalID
SetExternalID(b, externalID) ==
  /\ b \in builders
  /\ Assign("SetExternalID", b, 0, [heap[b] EXCEPT !.externalID = externalID])

\* FeatureBuilderBase::SetSuppressed
SetSuppressed(b, isSuppressed) ==
  /\ b \in builders
  /\ Assign("SetSuppressed", b, 0, [heap[b] EXCEPT !.isSuppressed = isSuppressed])

\* FeatureBuilderBase::Build
Build(b) ==
  /\ b \in builders
  /\ Len(model.m_features) < MaxList
  /\ model' = AddFeatureTo(model, heap, b)
  /\ last' = Call("Build", b, 0, "none", "")
  /\ UNCHANGED <<heap, builders, m_localCounter, counter, report, ioVars, codecVars, threads>>

\* model.AddFeature(feature) called by a caller on an object it holds
AddFeature(h) ==
  /\ h \in Handles
  /\ Len(model.m_features) < MaxList
  /\ model' = AddFeatureTo(model, heap, h)
  /\ last' = Call("AddFeature", h, 0, "none", "")
  /\ UNCHANGED <<heap, builders, m_localCounter, counter, report, ioVars, codecVars, threads>>

\* model.Clear()
Clear ==
  /\ model' = ClearModel(model)
  /\ last' = Call("Clear", Null, 0, "none", "")
  /\ UNCHANGED <<heap, builders, m_localCounter, counter, report, ioVars, codecVars, threads>>

\* model.Validate()
Validate ==
  /\ report' = ValidateModel(model, heap)
  /\ last' = Call("Validate", Null, 0, "none", "")
  /\ UNCHANGED <<heap, builders, m_localCounter, counter, model, ioVars, codecVars, threads>>

-----------------------------------------------------------------------------
(* FeatureBuilderBase::ValidateReference *)

\* ValidateReference as it would be without the standard IDs
ValidateReferenceNoStandard(m, ref) ==
  IF /\ ref.cls \in {"CRefPlane", "CRefAxis", "CRefPoint"}
     /\ ref.refType \in {"FEATURE_DATUM_PLANE", "FEATURE_DATUM_AXIS",
                         "FEATURE_DATUM_POINT"}
     /\ GetFeature(m, ref.targetFeatureID) = Null
  THEN Thrown("runtime_error", ref.targetFeatureID) ELSE Ok

ValidateReference(m, ref) ==
  IF ref.cls = "null" THEN Ok
  ELSE IF ref.refType = "FEATURE_DATUM_PLANE"
  THEN IF /\ ref.cls = "CRefPlane"
          /\ ~IsStandardPlane(ref.targetFeatureID)
          /\ GetFeature(m, ref.targetFeatureID) = Null
       THEN Thrown("runtime_error", ref.targetFeatureID) ELSE Ok
  ELSE IF ref.refType = "FEATURE_DATUM_AXIS"
  THEN IF /\ ref.cls = "CRefAxis"
          /\ ~IsStandardAxis(ref.targetFeatureID)
          /\ GetFeature(m, ref.targetFeatureID) = Null
       THEN Thrown("runtime_error", ref.targetFeatureID) ELSE Ok
  ELSE IF ref.refType = "FEATURE_DATUM_POINT"
  THEN IF /\ ref.cls = "CRefPoint"
          /\ ~IsStandardPoint(ref.targetFeatureID)
          /\ GetFeature(m, ref.targetFeatureID) = Null
       THEN Thrown("runtime_error", ref.targetFeatureID) ELSE Ok
  ELSE Ok

-----------------------------------------------------------------------------
(* SketchBuilder *)

\* a local ID that does not take the counter in
GenerateLocalIDConstant(prefix, before) == prefix \o "_" \o ToString(1)

\* prefix + "_" + std::to_string(++m_localCounter), given the value before
GenerateLocalID(prefix, before) == prefix \o "_" \o ToString(before + 1)

\* the radius test of AddCircle and AddArc
RadiusRejected(radius) == radius <= 0

\* appends a segment that takes the next local ID; the call returns that ID
AppendSegment(op, b, arg, seg, prefix) ==
  /\ Len(heap[b].segments) < MaxSegs
  /\ heap' = [heap EXCEPT ![b].segments =
                Append(@, [seg EXCEPT !.localID =
                                  GenerateLocalID(prefix, m_localCounter[b])])]
  /\ m_localCounter' = [m_localCounter EXCEPT ![b] = @ + 1]
  /\ last' = Call(op, b, arg, "none", GenerateLocalID(prefix, m_localCounter[b]))
  /\ UNCHANGED <<builders, counter, model, report, ioVars, codecVars, threads>>

SetReferencePlane(b, ref) ==
  /\ IsBuilder(b, "Sketch")
  /\ IF ref.cls = "null"
     THEN Fail("SetReferencePlane", b, 0, Thrown("invalid_argument", ""))
     ELSE LET ex == ValidateReference(model, ref)
          IN IF ex.threw # "none" THEN Fail("SetReferencePlane", b, 0, ex)
             ELSE Assign("SetReferencePlane", b, 0,
                         [heap[b] EXCEPT !.referencePlane = ref])

AddLine(b, start, end, isConstruction) ==
  /\ IsBuilder(b, "Sketch")
  /\ AppendSegment("AddLine", b, 0,
        [CSketchSeg("LINE") EXCEPT !.startPos = start, !.endPos = end,
                                   !.isConstruction = isConstruction], "L")

AddCircle(b, center, radius, isConstruction) ==
  /\ IsBuilder(b, "Sketch")
  /\ IF RadiusRejected(radius)
     THEN Fail("AddCircle", b, radius, Thrown("invalid_argument", ""))
     ELSE AppendSegment("AddCircle", b, radius,
            [CSketchSeg("CIRCLE") EXCEPT !.center = center, !.radius = radius,
                                         !.isConstruction = isConstruction], "C")

AddArc(b, center, radius, startAngle, endAngle, isClockwise, isConstruction) ==
  /\ IsBuilder(b, "Sketch")
  /\ IF RadiusRejected(radius)
     THEN Fail("AddArc", b, radius, Thrown("invalid_argument", ""))
     ELSE AppendSegment("AddArc", b, radius,
            [CSketchSeg("ARC") EXCEPT !.center = center, !.radius = radius,
                                      !.startAngle = startAngle,
                                      !.endAngle = endAngle,
                                      !.isClockwise = isClockwise,
                                      !.isConstruction = isConstruction], "A")

AddPoint(b, pos) ==
  /\ IsBuilder(b, "Sketch")
  /\ AppendSegment("AddPoint", b, 0,
        [CSketchSeg("POINT") EXCEPT !.position = pos], "P")

\* SketchBuilder::AddConstraint, reached through AddCoincident, AddHorizontal,
\* AddVertical, AddTangent and AddDistanceDimension
AddConstraint(b, type, ids, value) ==
  /\ IsBuilder(b, "Sketch")
  /\ Len(heap[b].constraints) < MaxSegs
  /\ Assign("AddConstraint", b, 0,
        [heap[b] EXCEPT !.constraints =
           Append(@, [type |-> type, entityLocalIDs |-> ids,
                      dimensionValue |-> value])])

-----------------------------------------------------------------------------
(* ExtrudeBuilder *)

\* UnifiedModel::GetFeatureIdByName: the first feature of the list so named
GetFeatureIdByName(m, hp, name) ==
  LET hits == {i \in 1..Len(m.m_features) : hp[m.m_features[i]].featureName = name}
  IN IF hits = {} THEN ""
     ELSE hp[m.m_features[CHOOSE i \in hits : \A j \in hits : i <= j]].featureID

SetProfile(b, sketchID) ==
  /\ IsBuilder(b, "Extrude")
  /\ LET sketch == GetFeatureAsSketch(model, heap, sketchID)
     IN IF sketch = Null
        THEN Fail("SetProfile", b, 0, Thrown("runtime_error", sketchID))
        ELSE Assign("SetProfile", b, 0, [heap[b] EXCEPT !.sketchProfile = sketch])

SetProfileByName(b, sketchName) ==
  /\ IsBuilder(b, "Extrude")
  /\ LET sketchId == GetFeatureIdByName(model, heap, sketchName)
         sketch == GetFeatureAsSketch(model, heap, sketchId)
     IN IF sketchId = "" \/ sketchId = "UnknownSketchId"
        THEN Fail("SetProfileByName", b, 0, Thrown("runtime_error", sketchName))
        ELSE IF sketch = Null
        THEN Fail("SetProfileByName", b, 0, Thrown("runtime_error", sketchId))
        ELSE Assign("SetProfileByName", b, 0,
                    [heap[b] EXCEPT !.sketchProfile = sketch])

SetProfileByExternalID(b, externalID) ==
  /\ IsBuilder(b, "Extrude")
  /\ LET sketch == GetFeatureByExternalIDAsSketch(model, heap, externalID)
     IN IF sketch = Null
        THEN Fail("SetProfileByExternalID", b, 0,
                  Thrown("runtime_error", externalID))
        ELSE Assign("SetProfileByExternalID", b, 0,
                    [heap[b] EXCEPT !.sketchProfile = sketch])

\* length < 1e-9
DirectionRejected(dir) == LessThanInv(Length(dir), DirectionMinInv)

SetDirection(b, dir) ==
  /\ IsBuilder(b, "Extrude")
  /\ IF DirectionRejected(dir)
     THEN Fail("SetDirection", b, Length(dir), Thrown("runtime_error", ""))
     ELSE Assign("SetDirection", b, Length(dir),
                 [heap[b] EXCEPT !.direction = Normalize(dir)])

SetOperation(b, op) ==
  /\ IsBuilder(b, "Extrude")
  /\ Assign("SetOperation", b, 0, [heap[b] EXCEPT !.operation = op])

SetEndCondition1(b, cond) ==
  /\ IsBuilder(b, "Extrude")
  /\ IF cond.type = "UNKNOWN"
     THEN Assign("SetEndCondition1", b, 0, heap[b])
     ELSE LET ex == ValidateReference(model, cond.referenceEntity)
          IN IF ex.threw # "none" THEN Fail("SetEndCondition1", b, 0, ex)
             ELSE Assign("SetEndCondition1", b, 0,
                         [heap[b] EXCEPT !.endCondition1 = cond])

SetEndCondition2(b, cond) ==
  /\ IsBuilder(b, "Extrude")
  /\ IF cond.type = "UNKNOWN"
     THEN Assign("SetEndCondition2", b, 0, heap[b])
     ELSE LET ex == ValidateReference(model, cond.referenceEntity)
          IN IF ex.threw # "none" THEN Fail("SetEndCondition2", b, 0, ex)
             ELSE Assign("SetEndCondition2", b, 0,
                         [heap[b] EXCEPT !.endCondition2 = cond])

\* angle < 0
DraftRejected(angle) == angle < 0

SetDraft(b, angle, outward) ==
  /\ IsBuilder(b, "Extrude")
  /\ IF DraftRejected(angle)
     THEN Fail("SetDraft", b, angle, Thrown("runtime_error", ""))
     ELSE Assign("SetDraft", b, angle,
                 [heap[b] EXCEPT !.draft = DraftOption(angle, outward)])

\* the thickness test as it would be if it let zero through
ThicknessRejectedBelowZero(thickness) == thickness < 0

\* thickness <= 0
ThicknessRejected(thickness) == thickness <= 0

SetThinWall(b, thickness, isOneSided, isCovered) ==
  /\ IsBuilder(b, "Extrude")
  /\ IF ThicknessRejected(thickness)
     THEN Fail("SetThinWall", b, thickness, Thrown("runtime_error", ""))
     ELSE Assign("SetThinWall", b, thickness,
                 [heap[b] EXCEPT !.thinWall =
                    ThinWallOption(thickness, isOneSided, isCovered)])

-----------------------------------------------------------------------------
(* EndCondition factory *)

Blind(depth) == [ExtrudeEndCondition EXCEPT !.type = "BLIND", !.depth = depth]

ThroughAll == [ExtrudeEndCondition EXCEPT !.type = "THROUGH_ALL"]

UpToFace(ref, offset) ==
  [ExtrudeEndCondition EXCEPT
     !.type = "UP_TO_FACE", !.referenceEntity = ref, !.offset = offset,
     !.hasOffset = GreaterThanInv(Abs(offset), DirectionMinInv)]

UpToVertex(ref, offset) ==
  [ExtrudeEndCondition EXCEPT
     !.type = "UP_TO_VERTEX", !.referenceEntity = ref, !.offset = offset,
     !.hasOffset = GreaterThanInv(Abs(offset), DirectionMinInv)]

-----------------------------------------------------------------------------
(* RevolveBuilder *)

RevolveSetProfile(b, sketchID) ==
  /\ IsBuilder(b, "Revolve")
  /\ LET sketch == GetFeatureAsSketch(model, heap, sketchID)
     IN IF sketch = Null
        THEN Fail("RevolveSetProfile", b, 0, Thrown("runtime_error", sketchID))
        ELSE Assign("RevolveSetProfile", b, 0,
                    [heap[b] EXCEPT !.profileSketchID = sketchID])

RevolveSetProfileByExternalID(b, externalID) ==
  /\ IsBuilder(b, "Revolve")
  /\ LET sketch == GetFeatureByExternalIDAsSketch(model, heap, externalID)
     IN IF sketch = Null
        THEN Fail("RevolveSetProfileByExternalID", b, 0,
                  Thrown("runtime_error", externalID))
        ELSE Assign("RevolveSetProfileByExternalID", b, 0,
                    [heap[b] EXCEPT !.profileSketchID = heap[sketch].featureID])

SetAxisFromSketchLine(b, sketchLineID) ==
  /\ IsBuilder(b, "Revolve")
  /\ Assign("SetAxisFromSketchLine", b, 0,
            [heap[b] EXCEPT !.axis.referenceLocalID = sketchLineID])

SetAxisExplicit(b, origin, direction) ==
  /\ IsBuilder(b, "Revolve")
  /\ Assign("SetAxisExplicit", b, 0,
            [heap[b] EXCEPT !.axis.origin = origin,
                            !.axis.direction = Normalize(direction)])

SetAxisRef(b, edgeRef) ==
  /\ IsBuilder(b, "Revolve")
  /\ Assign("SetAxisRef", b, 0,
            [heap[b] EXCEPT !.axis.referenceEntity = edgeRef])

SetAngle(b, angle) ==
  /\ IsBuilder(b, "Revolve")
  /\ Assign("SetAngle", b, 0,
            [heap[b] EXCEPT !.angleKind = "Single", !.primaryAngle = angle,
                            !.secondaryAngle = 0])

SetTwoWayAngle(b, angle1, angle2) ==
  /\ IsBuilder(b, "Revolve")
  /\ Assign("SetTwoWayAngle", b, 0,
            [heap[b] EXCEPT !.angleKind = "TwoWay", !.primaryAngle = angle1,
                            !.secondaryAngle = angle2])

SetSymmetricAngle(b, totalAngle) ==
  /\ IsBuilder(b, "Revolve")
  /\ Assign("SetSymmetricAngle", b, 0,
            [heap[b] EXCEPT !.angleKind = "Symmetric",
                            !.primaryAngle = totalAngle,
                            !.secondaryAngle = totalAngle])

-----------------------------------------------------------------------------
(* Save and Load as callers run them: doc is the file at the path, loaded   *)
(* the model handed to Load                                                 *)

\* TinyXMLSerializer::Save(model, filePath, &errorMessage); written tells
\* whether doc.SaveFile succeeds
Save(written) ==
  /\ doc' = IF written THEN SaveDocument(model, heap) ELSE doc
  /\ result' = IF written THEN [ok |-> TRUE, error |-> ""]
               ELSE [ok |-> FALSE, error |-> "XML_ERROR_FILE_COULD_NOT_BE_OPENED"]
  /\ last' = Call("Save", Null, 0, "none", "")
  /\ UNCHANGED <<heap, builders, m_localCounter, counter, model, report,
                 loaded, lheap, ldoc, codecVars, threads>>

\* TinyXMLSerializer::Load(loaded, filePath, &errorMessage); fresh tells
\* whether the caller hands over a model it has just constructed
Load(fresh) ==
  LET r == LoadDocument(doc, IF fresh THEN NewModel ELSE loaded)
  IN /\ loaded' = r.model
     /\ lheap' = IF r.ok THEN r.heap ELSE IF fresh THEN <<>> ELSE lheap
     /\ ldoc' = doc
     /\ result' = [ok |-> r.ok, error |-> r.error]
     /\ last' = Call("Load", Null, IF fresh THEN 1 ELSE 0, "none", "")
     /\ UNCHANGED <<heap, builders, m_localCounter, counter, model, report, doc,
                    codecVars, threads>>

-----------------------------------------------------------------------------
(* Inputs the specifications draw from *)

\* featureIDs a caller assigns by hand to an object it made itself
HandIDs == {"", "SK-DUMMY"}

ExternalIDs == {"", "SW-1"}

Names == {"Part"}

Booleans == {FALSE, TRUE}

\* IDs handed to SetProfile: the first generated one and one never generated
ProfileIDs == {GenerateUUID(0), "FB-404"}

Radii == {-Unit, 0, 15 * Unit}

Directions == {Zero3, <<3 * Unit, 4 * Unit, 0>>}

DraftAngles == {-Unit, 5 * Unit}

Thicknesses == {-Unit, 0, 2 * Unit}

Centers == {<<50 * Unit, 25 * Unit, 0>>}

\* references: to a standard plane, to the first generated feature, to a
\* feature that is nowhere, and the null pointer
References ==
  {NoRef,
   CRefPlane(PLANE_XY, Zero3, <<Unit, 0, 0>>, <<0, Unit, 0>>, <<0, 0, Unit>>),
   CRefPlane(GenerateUUID(0), Zero3, <<Unit, 0, 0>>, <<0, Unit, 0>>, <<0, 0, Unit>>),
   CRefPlane("DP-404", Zero3, <<Unit, 0, 0>>, <<0, Unit, 0>>, <<0, 0, Unit>>),
   CRefFace(GenerateUUID(0), 0, <<0, 0, Unit>>, Zero3),
   CRefFace("DP-404", 0, <<0, 0, Unit>>, Zero3)}

EndConditions ==
  {Blind(20 * Unit), [ExtrudeEndCondition EXCEPT !.type = "UNKNOWN"]}
  \cup {UpToFace(r, 0) : r \in References \ {NoRef}}

-----------------------------------------------------------------------------
(* Spec: the container, as callers and builders drive it *)

Next ==
  \/ \E id \in HandIDs : MakeFeature("Sketch", id)
  \/ \E k \in {"Sketch", "Extrude"}, n \in Names : NewBuilder(k, n)
  \/ \E b \in Handles, e \in ExternalIDs : SetExternalID(b, e)
  \/ \E b \in Handles : Build(b)
  \/ \E h \in Handles : AddFeature(h)
  \/ Clear
  \/ Validate

Spec == Init /\ [][Next]_vars

-----------------------------------------------------------------------------
(* SpecLocal: the setters that check a local invariant *)

NextLocal ==
  \/ \E k \in {"Sketch", "Extrude"}, n \in Names : NewBuilder(k, n)
  \/ \E b \in Handles, c \in Centers, r \in Radii : AddCircle(b, c, r, FALSE)
  \/ \E b \in Handles, c \in Centers, r \in Radii \ {-Unit} :
        AddArc(b, c, r, 0, 90 * Unit, FALSE, FALSE)
  \/ \E b \in Handles, d \in Directions : SetDirection(b, d)
  \/ \E b \in Handles, a \in DraftAngles : SetDraft(b, a, FALSE)
  \/ \E b \in Handles, t \in Thicknesses : SetThinWall(b, t, TRUE, FALSE)

SpecLocal == Init /\ [][NextLocal]_vars

-----------------------------------------------------------------------------
(* SpecRef: the setters that look another feature up in the model *)

NextRef ==
  \/ \E k \in Kinds, n \in Names : NewBuilder(k, n)
  \/ \E b \in Handles, r \in References : SetReferencePlane(b, r)
  \/ \E b \in Handles, id \in ProfileIDs : SetProfile(b, id)
  \/ \E b \in Handles, c \in EndConditions : SetEndCondition1(b, c)
  \/ \E b \in Handles, id \in ProfileIDs : RevolveSetProfile(b, id)
  \/ \E b \in Handles, r \in References : SetAxisRef(b, r)
  \/ \E b \in Handles : Build(b)
  \/ Clear

SpecRef == Init /\ [][NextRef]_vars

-----------------------------------------------------------------------------
(* SpecIO: a caller builds a model through the builders, then saves it and *)
(* loads the file                                                          *)

\* a center that needs seven significant digits
PreciseCenters == {<<1234567, 0, 0>>}

\* the caller is still building: nothing has been written yet
Building == ~doc.exists

NextIO ==
  \/ Building /\ \E k \in Kinds, n \in Names : NewBuilder(k, n)
  \/ Building /\ \E b \in Handles : SetExternalID(b, "SW-1")
  \/ Building /\ \E b \in Handles, c \in PreciseCenters :
        AddCircle(b, c, 15 * Unit, FALSE)
  \/ Building /\ \E b \in Handles, c \in Centers :
        AddArc(b, c, 15 * Unit, 0, 90 * Unit, FALSE, FALSE)
  \/ Building /\ \E b \in Handles : SetProfile(b, GenerateUUID(0))
  \/ Building /\ \E b \in Handles : SetDraft(b, 5 * Unit, FALSE)
  \/ Building /\ \E b \in Handles : SetAngle(b, 90 * Unit)
  \/ Building /\ \E b \in Handles : Build(b)
  \/ Building /\ Clear
  \/ \E written \in Booleans : Save(written)
  \/ \E fresh \in Booleans : Load(fresh)

SpecIO == Init /\ [][NextIO]_vars

-----------------------------------------------------------------------------
(* SpecCodec: references handed to SaveRefEntity, elements handed to        *)
(* LoadRefEntity                                                            *)

\* a CRefSubTopo constructed directly with a tag
CRefSubTopo(type, parent, index) ==
  [NoRef EXCEPT !.cls = "CRefSubTopo", !.refType = type,
                !.parentFeatureID = parent, !.topologyIndex = index]

\* SaveRefEntity(doc, parent, "ReferenceEntity", r) on an empty parent: the
\* element it adds, or the null element when it adds none
SaveRef(r) ==
  /\ savedRef' = r
  /\ refElem' = FirstChildElement(
                  SaveRefEntity(NewElement("EndCondition1"), "ReferenceEntity", r),
                  "ReferenceEntity")
  /\ last' = Call("SaveRefEntity", Null, 0, "none", "")
  /\ UNCHANGED <<heap, builders, m_localCounter, counter, model, report,
                 ioVars, decoded, threads>>

\* a reference element somebody else wrote
WriteRefElement(element) ==
  /\ refElem' = element
  /\ last' = Call("WriteRefElement", Null, 0, "none", "")
  /\ UNCHANGED <<heap, builders, m_localCounter, counter, model, report,
                 ioVars, savedRef, decoded, threads>>

\* LoadRefEntity(refElem)
LoadRef ==
  /\ decoded' = LoadRefEntity(refElem)
  /\ last' = Call("LoadRefEntity", Null, 0, "none", "")
  /\ UNCHANGED <<heap, builders, m_localCounter, counter, model, report,
                 ioVars, savedRef, refElem, threads>>

\* one or two representatives of each of the 8 kinds, the plain CRefFeature
\* and CRefSubTopo a caller can tag by hand, and the null pointer
CodecReferences ==
  {NoRef,
   CRefPlane(PLANE_XY, Zero3, <<Unit, 0, 0>>, <<0, Unit, 0>>, <<0, 0, Unit>>),
   CRefPlane(GenerateUUID(0), <<1234567, 0, 0>>, <<Unit, 0, 0>>, <<0, Unit, 0>>,
             <<0, 0, Unit>>),
   CRefAxis(AXIS_Z, Zero3, <<0, 0, Unit>>),
   CRefAxis(GenerateUUID(0), <<10 * Unit, 0, 0>>, <<0, Unit, 0>>),
   CRefPoint(ORIGIN, Zero3),
   CRefPoint(GenerateUUID(0), <<5 * Unit, 5 * Unit, 0>>),
   CRefSketch(GenerateUUID(0)),
   CRefFace(GenerateUUID(1), 3, <<0, 0, Unit>>, <<50 * Unit, 25 * Unit, 0>>),
   CRefEdge(GenerateUUID(1), 1, Zero3, <<10 * Unit, 0, 0>>, <<5 * Unit, 0, 0>>),
   CRefVertex(GenerateUUID(1), 0, <<10 * Unit, 0, 0>>),
   CRefSketchSeg(GenerateUUID(0), "L_1", 0),
   CRefSketchSeg(GenerateUUID(0), "", 2),
   CRefFeature("FEATURE_DATUM_PLANE", GenerateUUID(0)),
   CRefFeature("FEATURE_WHOLE_SKETCH", GenerateUUID(0)),
   CRefSubTopo("TOPO_FACE", GenerateUUID(1), 3)}

\* a reference element with the given tag name, Type and TargetFeatureID
RefElement(name, type, id) ==
  SetAttribute(SetAttribute(NewElement(name), "Type", type),
               "TargetFeatureID", id)

\* reference elements with a Type outside the vocabulary, with the legacy
\* Type "Feature", and with no Type
HandRefElements ==
  {RefElement("ReferenceEntity", "Spline", GenerateUUID(0)),
   RefElement("ReferenceEntity", "Feature", GenerateUUID(0)),
   SetAttribute(NewElement("ReferenceEntity"), "TargetFeatureID", GenerateUUID(0))}

NextCodec ==
  \/ \E r \in CodecReferences : SaveRef(r)
  \/ \E e \in HandRefElements : WriteRefElement(e)
  \/ LoadRef

SpecCodec == Init /\ [][NextCodec]_vars

-----------------------------------------------------------------------------
(* SpecDoc: documents written by other tools and other versions, loaded *)

\* the file at the path is replaced by a document somebody else wrote
WriteFile(d) ==
  /\ doc' = d
  /\ last' = Call("WriteFile", Null, 0, "none", "")
  /\ UNCHANGED <<heap, builders, m_localCounter, counter, model, report,
                 loaded, lheap, ldoc, result, codecVars, threads>>

\* a root element with its three attributes
RootElement(unit, name, count) ==
  SetAttribute(SetAttribute(SetAttribute(NewElement("UnifiedModel"),
    "UnitSystem", unit), "ModelName", name), "FeatureCount", count)

\* a Feature element with the attributes SaveFeature writes
FeatureElement(type, id) ==
  SetAttribute(SetAttribute(SetAttribute(SetAttribute(NewElement("Feature"),
    "Type", type), "ID", id), "Name", "Part"), "Suppressed", "false")

\* a Feature element with no Type
UntypedFeatureElement(id) ==
  SetAttribute(SetAttribute(SetAttribute(NewElement("Feature"),
    "ID", id), "Name", "Part"), "Suppressed", "false")

\* a document with the given root attributes and Feature elements
Document(unit, count, features) ==
  XMLDocument([RootElement(unit, "Bracket", count) EXCEPT !.children = features])

\* a Sketch element whose ReferencePlane child is the given element
SketchOn(id, planeElem) ==
  InsertEndChild(FeatureElement("Sketch", id), planeElem)

\* a Sketch element with one constraint of the given ordinal
SketchConstrained(id, ordinal) ==
  InsertEndChild(FeatureElement("Sketch", id),
    InsertEndChild(NewElement("Constraints"),
      SetAttribute(SetAttribute(SetAttribute(NewElement("Constraint"),
        "Type", ordinal), "Dimension", 0), "Entities", <<"L_1">>)))

\* an Extrude element with the given Operation and EndCondition1 Type
ExtrudeElement(id, operation, endType) ==
  InsertEndChild(
    SetAttribute(FeatureElement("Extrude", id), "Operation", operation),
    SetAttribute(SetAttribute(NewElement("EndCondition1"),
      "Type", endType), "Depth", 20 * Unit))

HandDocuments ==
  {Document("Millimeter", 0, <<>>),
   Document("Millimeter", 1, <<FeatureElement("Sketch", "S1")>>),
   Document("Millimeter", 5, <<FeatureElement("Sketch", "S1")>>),
   Document("Inch", 0, <<FeatureElement("Sketch", "S1"),
                         ExtrudeElement("E1", "Cut", "ThroughAll")>>),
   Document("Millimeter", 2, <<FeatureElement("Loft", "L1"),
                               FeatureElement("Sketch", "S1")>>),
   Document("Millimeter", 1, <<UntypedFeatureElement("U1")>>),
   Document("Millimeter", 1,
     <<SketchOn("S1", RefElement("ReferencePlane", "Plane", PLANE_XY))>>),
   Document("Millimeter", 1,
     <<SketchOn("S1", RefElement("ReferencePlane", "Spline", "FB-9"))>>),
   Document("Millimeter", 1,
     <<SketchOn("S1", SetAttribute(NewElement("ReferencePlane"),
                                   "TargetFeatureID", "FB-9"))>>),
   Document("Millimeter", 1,
     <<SketchOn("S1", RefElement("ReferencePlane", "Feature", "FB-9"))>>),
   Document("Millimeter", 1,
     <<SketchOn("S1", RefElement("ReferencePlane", "Axis", AXIS_X))>>),
   Document("Furlong", 1, <<FeatureElement("Sketch", "S1")>>),
   Document("Millimeter", 1, <<ExtrudeElement("E1", "Intersect", "Blind")>>),
   Document("Millimeter", 1, <<ExtrudeElement("E1", "Cut", "UpToBody")>>),
   Document("Millimeter", 1, <<SketchConstrained("S1", 2)>>),
   Document("Millimeter", 1, <<SketchConstrained("S1", 42)>>),
   XMLDocument(NewElement("Assembly")),
   NoDoc}

NextDoc ==
  \/ \E d \in HandDocuments : WriteFile(d)
  \/ \E fresh \in Booleans : Load(fresh)

SpecDoc == Init /\ [][NextDoc]_vars

-----------------------------------------------------------------------------
(* SpecResave: a model filled by builders and through Features(), saved,   *)
(* loaded into a fresh model, and the loaded model saved to the same path  *)

\* model.Features().push_back(feature): the list handed out for modification
\* takes any pointer, the null pointer included, and the indexes are not told
FeaturesPushBack(h) ==
  /\ Len(model.m_features) < MaxList
  /\ model' = [model EXCEPT !.m_features = Append(@, h)]
  /\ last' = Call("Features.push_back", h, 0, "none", "")
  /\ UNCHANGED <<heap, builders, m_localCounter, counter, report, ioVars,
                 codecVars, threads>>

\* TinyXMLSerializer::Save(loaded, filePath, &errorMessage)
SaveLoaded(written) ==
  /\ doc' = IF written THEN SaveDocument(loaded, lheap) ELSE doc
  /\ result' = IF written THEN [ok |-> TRUE, error |-> ""]
               ELSE [ok |-> FALSE, error |-> "XML_ERROR_FILE_COULD_NOT_BE_OPENED"]
  /\ last' = Call("SaveLoaded", Null, 0, "none", "")
  /\ UNCHANGED <<heap, builders, m_localCounter, counter, model, report,
                 loaded, lheap, ldoc, codecVars, threads>>

NextResave ==
  \/ Building /\ \E k \in Kinds : NewBuilder(k, "Part")
  \/ Building /\ \E b \in Handles, c \in PreciseCenters :
        AddCircle(b, c, 15 * Unit, FALSE)
  \/ Building /\ \E b \in Handles, c \in Centers :
        AddArc(b, c, 15 * Unit, 0, 90 * Unit, FALSE, FALSE)
  \/ Building /\ \E b \in Handles : SetProfile(b, GenerateUUID(0))
  \/ Building /\ \E b \in Handles : SetAngle(b, 90 * Unit)
  \/ Building /\ \E b \in Handles : Build(b)
  \/ Building /\ FeaturesPushBack(Null)
  \/ \E written \in Booleans : Save(written)
  \/ Load(TRUE)
  \/ \E written \in Booleans : SaveLoaded(written)

SpecResave == Init /\ [][NextResave]_vars

-----------------------------------------------------------------------------
(* SpecThreads: builders constructed from several threads; each              *)
(* construction calls StringHelper::GenerateUUID on the one static counter  *)

\* the calls of GenerateUUID begun so far
CallsMade(ts) ==
  LET Made[t \in 0..MaxThreads] ==
        IF t = 0 THEN 0
        ELSE Made[t - 1] + Len(ts[t].ids) + (IF ts[t].pc = "fetched" THEN 1 ELSE 0)
  IN Made[MaxThreads]

\* the counter with one increment dropped
fetch_add_dropped(c, n) == c

\* the value std::atomic<int>::fetch_add(n) stores; the call returns c
fetch_add(c, n) == c + n

\* counter.fetch_add(1, std::memory_order_relaxed) in thread t: one atomic
\* read-modify-write
FetchAdd(t) ==
  /\ threads[t].pc = "idle"
  /\ CallsMade(threads) < MaxCalls
  /\ threads' = [threads EXCEPT ![t].pc = "fetched", ![t].fetched = counter]
  /\ counter' = fetch_add(counter, 1)
  /\ last' = Call("fetch_add", t, 0, "none", "")
  /\ UNCHANGED <<heap, builders, m_localCounter, model, report, ioVars, codecVars>>

\* return "FB-" + std::to_string(id) in thread t
Return(t) ==
  /\ threads[t].pc = "fetched"
  /\ threads' = [threads EXCEPT ![t].pc = "idle",
                                ![t].ids = Append(@, GenerateUUID(threads[t].fetched))]
  /\ last' = Call("GenerateUUID", t, 0, "none", "")
  /\ UNCHANGED <<heap, builders, m_localCounter, counter, model, report,
                 ioVars, codecVars>>

NextThreads ==
  \/ \E t \in Threads : FetchAdd(t)
  \/ \E t \in Threads : Return(t)

SpecThreads == Init /\ [][NextThreads]_vars

-----------------------------------------------------------------------------
(* SpecSketch: segments added to sketches through SketchBuilder *)

NextSketch ==
  \/ \E n \in Names : NewBuilder("Sketch", n)
  \/ \E b \in Handles, c \in Centers, isConstruction \in Booleans :
        AddLine(b, Zero3, c, isConstruction)
  \/ \E b \in Handles, c \in Centers, r \in Radii : AddCircle(b, c, r, FALSE)
  \/ \E b \in Handles, c \in Centers, r \in Radii :
        AddArc(b, c, r, 0, 90 * Unit, FALSE, FALSE)
  \/ \E b \in Handles, c \in Centers : AddPoint(b, c)

SpecSketch == Init /\ [][NextSketch]_vars

-----------------------------------------------------------------------------
(* SpecDatum: datum references handed to the setters that validate them *)

\* datum references to a standard ID, to the first generated feature and to
\* a feature no model holds
DatumPlanes ==
  {CRefPlane(id, Zero3, <<Unit, 0, 0>>, <<0, Unit, 0>>, <<0, 0, Unit>>) :
     id \in {PLANE_XY, GenerateUUID(0), "DP-404"}}

DatumAxes == {CRefAxis(id, Zero3, <<0, 0, Unit>>) : id \in {AXIS_Z, "DP-404"}}

DatumPoints == {CRefPoint(id, Zero3) : id \in {ORIGIN, GenerateUUID(0), "DP-404"}}

NextDatum ==
  \/ \E k \in {"Sketch", "Extrude"}, n \in Names : NewBuilder(k, n)
  \/ \E b \in Handles, r \in DatumPlanes : SetReferencePlane(b, r)
  \/ \E b \in Handles, r \in DatumAxes : SetEndCondition1(b, UpToFace(r, 0))
  \/ \E b \in Handles, r \in DatumPoints : SetEndCondition2(b, UpToVertex(r, 0))
  \/ \E b \in Handles : Build(b)
  \/ Clear

SpecDatum == Init /\ [][NextDatum]_vars

-----------------------------------------------------------------------------
(* SpecName: profiles looked up by the name of the sketch *)

NextName ==
  \/ \E k \in {"Sketch", "Extrude"}, n \in Names : NewBuilder(k, n)
  \/ \E b \in Handles : Build(b)
  \/ \E b \in Handles, n \in Names : SetProfileByName(b, n)
  \/ \E b \in Handles : SetSuppressed(b, TRUE)
  \/ \E b \in Handles, e \in ExternalIDs : SetExternalID(b, e)
  \/ Clear

SpecName == Init /\ [][NextName]_vars

-----------------------------------------------------------------------------
(* SpecAxis: the axis of a revolve, set through RevolveBuilder *)

NextAxis ==
  \/ \E n \in Names : NewBuilder("Revolve", n)
  \/ \E b \in Handles : SetAxisFromSketchLine(b, GenerateLocalID("L", 0))
  \/ \E b \in Handles, d \in Directions : SetAxisExplicit(b, Zero3, d)
  \/ \E b \in Handles, r \in References : SetAxisRef(b, r)
  \/ \E b \in Handles : SetAngle(b, 90 * Unit)

SpecAxis == Init /\ [][NextAxis]_vars

-----------------------------------------------------------------------------
(* SpecTrip: sketches with every kind of segment, extrudes with both end    *)
(* conditions and revolves with an axis, saved and loaded                   *)

NextTrip ==
  \/ Building /\ \E k \in Kinds, n \in Names : NewBuilder(k, n)
  \/ Building /\ \E b \in Handles, c \in Centers : AddLine(b, Zero3, c, TRUE)
  \/ Building /\ \E b \in Handles, c \in Centers : AddCircle(b, c, 15 * Unit, FALSE)
  \/ Building /\ \E b \in Handles, c \in Centers :
        AddArc(b, c, 15 * Unit, 0, 90 * Unit, TRUE, FALSE)
  \/ Building /\ \E b \in Handles, c \in Centers : AddPoint(b, c)
  \/ Building /\ \E b \in Handles :
        SetEndCondition1(b, UpToFace(CRefFace(GenerateUUID(0), 0, <<0, 0, Unit>>, Zero3),
                                     5 * Unit))
  \/ Building /\ \E b \in Handles : SetEndCondition2(b, Blind(10 * Unit))
  \/ Building /\ \E b \in Handles, d \in Directions \ {Zero3} :
        SetAxisExplicit(b, Zero3, d)
  \/ Building /\ \E b \in Handles : SetTwoWayAngle(b, 90 * Unit, 45 * Unit)
  \/ Building /\ \E b \in Handles : Build(b)
  \/ Save(TRUE)
  \/ Load(TRUE)

SpecTrip == Init /\ [][NextTrip]_vars

-----------------------------------------------------------------------------
(* SpecProcess: a model saved by one process, loaded by the next one, which *)
(* goes on building                                                         *)

\* the process ends and another starts: statics are initialised anew, and of
\* everything only the file at the path remains
NewProcess ==
  /\ doc.exists
  /\ heap' = <<>> /\ builders' = {} /\ m_localCounter' = <<>>
  /\ counter' = 0
  /\ model' = NewModel /\ report' = NewReport
  /\ loaded' = NewModel /\ lheap' = <<>> /\ ldoc' = NoDoc
  /\ result' = [ok |-> TRUE, error |-> ""]
  /\ last' = Call("NewProcess", Null, 0, "none", "")
  /\ UNCHANGED <<doc, codecVars, threads>>

\* TinyXMLSerializer::Load(model, filePath) before the process has made any
\* object: the features Load makes are the objects of the heap
LoadModel ==
  /\ heap = <<>>
  /\ LET r == LoadDocument(doc, model)
     IN /\ model' = r.model
        /\ heap' = r.heap
        /\ m_localCounter' = [h \in 1..Len(r.heap) |-> 0]
        /\ result' = [ok |-> r.ok, error |-> r.error]
  /\ ldoc' = doc
  /\ last' = Call("LoadModel", Null, 0, "none", "")
  /\ UNCHANGED <<builders, counter, report, doc, loaded, lheap, codecVars, threads>>

NextProcess ==
  \/ \E k \in {"Sketch", "Revolve"}, n \in Names : NewBuilder(k, n)
  \/ \E b \in Handles, c \in Centers : AddCircle(b, c, 15 * Unit, FALSE)
  \/ \E b \in Handles : SetAngle(b, 90 * Unit)
  \/ \E b \in Handles : Build(b)
  \/ Save(TRUE)
  \/ NewProcess
  \/ LoadModel

SpecProcess == Init /\ [][NextProcess]_vars

-----------------------------------------------------------------------------
(* Properties of the container *)

ListedFeatures == Range(model.m_features)

\* the positions of the list that hold a feature with an empty featureID
EmptyIDPositions ==
  {i \in 1..Len(model.m_features) : heap[model.m_features[i]].featureID = ""}

\* C4: after any sequence of AddFeature, Build and Clear calls every feature
\* of the list is the feature GetFeature returns for its featureID, and every
\* entry of the ID index is a feature of the list
C4_IndexAgreesWithList ==
  /\ \A h \in ListedFeatures : GetFeature(model, heap[h].featureID) = h
  /\ \A id \in DOMAIN model.m_index : model.m_index[id] \in ListedFeatures

\* C5: after any sequence of SetExternalID, Build / AddFeature and Clear calls
\* GetFeatureByExternalID(e) returns f if and only if f is in the list and
\* f.externalID equals e
C5_ExternalIndexExact ==
  \A e \in ExternalIDs \ {""}, h \in Handles :
    (GetFeatureByExternalID(model, e) = h)
      <=> (h \in ListedFeatures /\ heap[h].externalID = e)

\* C6: whenever Validate() reports isValid = true, the featureIDs of the
\* features of the list are non-empty and no two features share one
C6_ValidImpliesUniqueIDs ==
  (last.op = "Validate" /\ report.isValid) =>
    /\ \A h \in ListedFeatures : heap[h].featureID # ""
    /\ \A g, h \in ListedFeatures :
         g # h => heap[g].featureID # heap[h].featureID

\* C7: Validate() aggregates: with n >= 1 list entries whose featureID is
\* empty it returns isValid = false and at least n errors
C7_ValidateAggregates ==
  (last.op = "Validate" /\ Cardinality(EmptyIDPositions) >= 1) =>
    /\ ~report.isValid
    /\ Len(report.errors) >= Cardinality(EmptyIDPositions)

\* C7 witness: a model validated with two features of empty ID in its list
C7_TwoEmptyIDsValidated ==
  /\ last.op = "Validate"
  /\ \E g, h \in ListedFeatures :
       g # h /\ heap[g].featureID = "" /\ heap[h].featureID = ""
  /\ Len(report.errors) = 2

-----------------------------------------------------------------------------
(* Properties of the builders *)

ReferencesOf(f) ==
  {f.referencePlane, f.endCondition1.referenceEntity,
   f.endCondition2.referenceEntity, f.axis.referenceEntity} \ {NoRef}

IsStandardID(id) ==
  IsStandardPlane(id) \/ IsStandardAxis(id) \/ IsStandardPoint(id)

\* the ID a reference names: its target, or the parent of a sub-topology
NamedID(ref) ==
  IF IsSubTopoClass(ref.cls) THEN ref.parentFeatureID ELSE ref.targetFeatureID

\* C8: no feature holding a reference that names neither a feature of the
\* model nor a standard constant is ever added to the model
C8_NoDanglingReferenceAdded ==
  \A h \in ListedFeatures : \A ref \in ReferencesOf(heap[h]) :
    IsStandardID(NamedID(ref)) \/ GetFeature(model, NamedID(ref)) # Null

\* C9: every Extrude of the list has a non-null profile that is a Sketch of
\* the same list, and every Revolve's profileSketchID names a Sketch of it
C9_ProfilesEnforcedAtBuild ==
  \A h \in ListedFeatures :
    /\ heap[h].kind = "Extrude" =>
         /\ heap[h].sketchProfile # Null
         /\ heap[heap[h].sketchProfile].kind = "Sketch"
         /\ heap[h].sketchProfile \in ListedFeatures
    /\ heap[h].kind = "Revolve" =>
         \E s \in ListedFeatures :
           heap[s].kind = "Sketch" /\ heap[s].featureID = heap[h].profileSketchID

\* the call just made is one the local invariants forbid
ForbiddenCall(c) ==
  \/ c.op \in {"AddCircle", "AddArc"} /\ c.arg <= 0
  \/ c.op = "SetThinWall" /\ c.arg <= 0
  \/ c.op = "SetDraft" /\ c.arg < 0
  \/ c.op = "SetDirection" /\ c.arg = 0

\* C10: AddCircle / AddArc with radius <= 0, SetThinWall with thickness <= 0,
\* SetDraft with angle < 0 and SetDirection with a zero-length vector signal
\* an error and leave the feature under construction, its local-ID counter
\* and the model as they were
C10_LocalInvariantsFailFast ==
  [][ForbiddenCall(last') =>
        /\ last'.threw # "none"
        /\ heap' = heap
        /\ m_localCounter' = m_localCounter
        /\ model' = model]_vars

\* C10 witness: a forbidden AddCircle has thrown on a sketch that already
\* holds a segment, and a forbidden SetThinWall on an extrude with a thin wall
C10_ForbiddenCallThrew ==
  /\ ForbiddenCall(last)
  /\ last.threw # "none"
  /\ \/ last.op = "AddCircle" /\ Len(heap[last.h].segments) > 0
     \/ last.op = "SetThinWall" /\ heap[last.h].thinWall.present

-----------------------------------------------------------------------------
(* Properties of Save and Load *)

RefEq(a, b) ==
  /\ a.cls = b.cls /\ a.refType = b.refType
  /\ a.targetFeatureID = b.targetFeatureID
  /\ a.parentFeatureID = b.parentFeatureID
  /\ a.topologyIndex = b.topologyIndex
  /\ a.segmentLocalID = b.segmentLocalID
  /\ PointEq(a.origin, b.origin) /\ PointEq(a.xDir, b.xDir)
  /\ PointEq(a.yDir, b.yDir) /\ PointEq(a.normal, b.normal)
  /\ PointEq(a.direction, b.direction) /\ PointEq(a.position, b.position)
  /\ PointEq(a.centroid, b.centroid) /\ PointEq(a.uDir, b.uDir)
  /\ PointEq(a.vDir, b.vDir) /\ PointEq(a.startPoint, b.startPoint)
  /\ PointEq(a.endPoint, b.endPoint) /\ PointEq(a.midPoint, b.midPoint)

SegEq(a, b) ==
  /\ a.type = b.type /\ a.localID = b.localID
  /\ a.isConstruction = b.isConstruction /\ a.isClockwise = b.isClockwise
  /\ PointEq(a.startPos, b.startPos) /\ PointEq(a.endPos, b.endPos)
  /\ PointEq(a.center, b.center) /\ PointEq(a.position, b.position)
  /\ NearlyEqual(a.radius, b.radius)
  /\ NearlyEqual(a.startAngle, b.startAngle)
  /\ NearlyEqual(a.endAngle, b.endAngle)

ConstraintEq(a, b) ==
  /\ a.type = b.type /\ a.entityLocalIDs = b.entityLocalIDs
  /\ NearlyEqual(a.dimensionValue, b.dimensionValue)

EndConditionEq(a, b) ==
  /\ a.type = b.type /\ a.hasOffset = b.hasOffset /\ a.isFlip = b.isFlip
  /\ a.isFlipMaterialSide = b.isFlipMaterialSide
  /\ NearlyEqual(a.depth, b.depth) /\ NearlyEqual(a.offset, b.offset)
  /\ RefEq(a.referenceEntity, b.referenceEntity)

OptionEq(a, b) ==
  /\ a.present = b.present /\ a.flagA = b.flagA /\ a.flagB = b.flagB
  /\ NearlyEqual(a.value, b.value)

\* the feature a of heap hpA equals the feature b of heap hpB field by field;
\* a profile pointer is compared by the ID of what it points to
FeatureEq(hpA, a, hpB, b) ==
  /\ a.kind = b.kind /\ a.featureID = b.featureID
  /\ a.featureName = b.featureName /\ a.externalID = b.externalID
  /\ a.isSuppressed = b.isSuppressed
  /\ RefEq(a.referencePlane, b.referencePlane)
  /\ Len(a.segments) = Len(b.segments)
  /\ \A i \in 1..Len(a.segments) : SegEq(a.segments[i], b.segments[i])
  /\ Len(a.constraints) = Len(b.constraints)
  /\ \A i \in 1..Len(a.constraints) : ConstraintEq(a.constraints[i], b.constraints[i])
  /\ (a.sketchProfile = Null) = (b.sketchProfile = Null)
  /\ a.sketchProfile # Null =>
       hpA[a.sketchProfile].featureID = hpB[b.sketchProfile].featureID
  /\ PointEq(a.direction, b.direction) /\ a.operation = b.operation
  /\ EndConditionEq(a.endCondition1, b.endCondition1)
  /\ EndConditionEq(a.endCondition2, b.endCondition2)
  /\ OptionEq(a.draft, b.draft) /\ OptionEq(a.thinWall, b.thinWall)
  /\ a.profileSketchID = b.profileSketchID /\ a.angleKind = b.angleKind
  /\ NearlyEqual(a.primaryAngle, b.primaryAngle)
  /\ NearlyEqual(a.secondaryAngle, b.secondaryAngle)
  /\ a.axis.kind = b.axis.kind
  /\ a.axis.referenceLocalID = b.axis.referenceLocalID
  /\ PointEq(a.axis.origin, b.axis.origin)
  /\ PointEq(a.axis.direction, b.axis.direction)
  /\ RefEq(a.axis.referenceEntity, b.axis.referenceEntity)

ModelEq(mA, hpA, mB, hpB) ==
  /\ mA.unit = mB.unit /\ mA.modelName = mB.modelName
  /\ Len(mA.m_features) = Len(mB.m_features)
  /\ \A i \in 1..Len(mA.m_features) :
        FeatureEq(hpA, hpA[mA.m_features[i]], hpB, hpB[mB.m_features[i]])

\* the last call was a Load into a fresh model of the file Save writes for
\* the model as it is now
LoadedWhatModelSaves ==
  /\ last.op = "Load" /\ last.arg = 1
  /\ ldoc = SaveDocument(model, heap)

\* C1: for a model built through the builders, saving it and loading the
\* file into a fresh model succeeds and yields a model equal to it field by
\* field: the same features in the same order with the same IDs (featureID,
\* externalID, reference IDs), enums, indices and booleans, and numbers equal
\* within tolerance.
C1_RoundTrip ==
  (LoadedWhatModelSaves /\ Range(model.m_features) \subseteq builders)
    => result.ok /\ ModelEq(model, heap, loaded, lheap)

\* the Extrudes of the loaded model that have a profile
LoadedExtrudes ==
  {h \in Range(loaded.m_features) :
     lheap[h].kind = "Extrude" /\ lheap[h].sketchProfile # Null}

\* C2: after a successful Load every Extrude of the loaded model that has a
\* profile has, as its profile, the very object the loaded model holds for
\* the profile's ID, wherever the Sketch element stands in the document.
C2_ProfileIsTheModelsObject ==
  (last.op = "Load" /\ result.ok) =>
    \A h \in LoadedExtrudes :
      lheap[h].sketchProfile =
        GetFeature(loaded, lheap[lheap[h].sketchProfile].featureID)

\* the Feature elements of the document read last
FeatureElements == ChildElements(ldoc.root, "Feature")

\* some Extrude element names a profile no Sketch element of the document has
\* as its ID
NamesAbsentSketch ==
  \E i \in 1..Len(FeatureElements) :
    /\ MakesPlaceholder(FeatureElements[i])
    /\ ~\E j \in 1..Len(FeatureElements) :
          /\ QueryAttribute(FeatureElements[j], "Type", "") = "Sketch"
          /\ QueryAttribute(FeatureElements[j], "ID", "") =
               Attribute(FirstChildElement(FeatureElements[i], "ProfileSketchID"),
                         "Value")

\* C3: a Load of a document in which an Extrude's ProfileSketchID names no
\* Sketch of the document returns false with an error message.
C3_AbsentProfileFailsLoad ==
  (last.op = "Load" /\ ldoc.exists /\ NamesAbsentSketch) =>
    ~result.ok /\ result.error # ""

-----------------------------------------------------------------------------
(* Properties of the reference codec *)

\* the concrete class the builders make for a tag
VariantOf(refType) ==
  CASE refType = "FEATURE_DATUM_PLANE" -> "CRefPlane"
    [] refType = "FEATURE_DATUM_AXIS" -> "CRefAxis"
    [] refType = "FEATURE_DATUM_POINT" -> "CRefPoint"
    [] refType = "FEATURE_WHOLE_SKETCH" -> "CRefSketch"
    [] refType = "TOPO_FACE" -> "CRefFace"
    [] refType = "TOPO_EDGE" -> "CRefEdge"
    [] refType = "TOPO_VERTEX" -> "CRefVertex"
    [] refType = "TOPO_SKETCH_SEG" -> "CRefSketchSeg"
    [] OTHER -> "null"

\* the last call decoded the element SaveRefEntity emits for savedRef, a
\* reference of one of the 8 kinds in its concrete variant
DecodedWhatWasEncoded ==
  /\ last.op = "LoadRefEntity"
  /\ savedRef.cls # "null"
  /\ savedRef.cls = VariantOf(savedRef.refType)
  /\ refElem = FirstChildElement(
                 SaveRefEntity(NewElement("EndCondition1"), "ReferenceEntity",
                               savedRef),
                 "ReferenceEntity")

\* C11: for each of the 8 reference kinds, decoding with LoadRefEntity the
\* element SaveRefEntity emits for a reference r yields a reference of the
\* same kind and concrete variant with every field of r: the IDs and the
\* topology index exactly, the fingerprint points and vectors within
\* tolerance.
C11_ReferenceRoundTrip ==
  DecodedWhatWasEncoded => RefEq(decoded, savedRef)

\* C17: the element SaveRefEntity emits for a non-null reference carries the
\* TargetFeatureID of a feature reference, and the ParentFeatureID and
\* TopologyIndex of a sub-topology reference.
C17_IdentifyingDataSaved ==
  (last.op = "SaveRefEntity" /\ savedRef.cls # "null") =>
    /\ refElem # NoElement
    /\ IsFeatureRefClass(savedRef.cls) =>
         /\ HasAttribute(refElem, "TargetFeatureID")
         /\ Attribute(refElem, "TargetFeatureID") = savedRef.targetFeatureID
    /\ IsSubTopoClass(savedRef.cls) =>
         /\ HasAttribute(refElem, "ParentFeatureID")
         /\ Attribute(refElem, "ParentFeatureID") = savedRef.parentFeatureID
         /\ HasAttribute(refElem, "TopologyIndex")
         /\ Attribute(refElem, "TopologyIndex") = savedRef.topologyIndex

-----------------------------------------------------------------------------
(* Properties of loading documents written elsewhere *)

\* the document Load read had a UnifiedModel root
LoadReadRoot ==
  last.op = "Load" /\ ldoc.exists /\ ldoc.root.name = "UnifiedModel"

\* the element has no Type, or one that names no feature kind
FeatureTypeUnknown(element) == QueryAttribute(element, "Type", "") \notin Kinds

\* the element has no Type, or one that names no entry of the reference table
RefTypeUnknown(element) ==
  RefTypeFromString(QueryAttribute(element, "Type", "")) = "nullopt"

ReferencePlaneElements ==
  {FirstChildElement(FeatureElements[i], "ReferencePlane") :
     i \in 1..Len(FeatureElements)} \ {NoElement}

\* C12: when a Feature element or a reference element of the document has a
\* Type outside the known names, or no Type, Load returns false
C12_UnknownTypeFailsLoad ==
  (/\ LoadReadRoot
   /\ \/ \E i \in 1..Len(FeatureElements) : FeatureTypeUnknown(FeatureElements[i])
      \/ \E e \in ReferencePlaneElements : RefTypeUnknown(e))
  => ~result.ok

ConstraintElements ==
  UNION {Range(ChildElements(FirstChildElement(FeatureElements[i], "Constraints"),
                             "Constraint")) : i \in 1..Len(FeatureElements)}

\* the document holds a UnitSystem, Operation, end-condition Type or constraint
\* ordinal that is none of the values of its enumeration
HoldsUnknownValue ==
  \/ /\ HasAttribute(ldoc.root, "UnitSystem")
     /\ UnitTypeFromString(Attribute(ldoc.root, "UnitSystem")) = "nullopt"
  \/ \E i \in 1..Len(FeatureElements) :
       LET f == FeatureElements[i]
           ec1 == FirstChildElement(f, "EndCondition1")
       IN /\ QueryAttribute(f, "Type", "") = "Extrude"
          /\ \/ /\ HasAttribute(f, "Operation")
                /\ BooleanOpFromString(Attribute(f, "Operation")) = "nullopt"
             \/ /\ ec1 # NoElement
                /\ HasAttribute(ec1, "Type")
                /\ ExtrudeEndConditionTypeFromString(Attribute(ec1, "Type")) = "nullopt"
  \/ \E c \in ConstraintElements :
       HasAttribute(c, "Type") /\ Attribute(c, "Type") \notin 0..8

\* C13: a UnitSystem, Operation, end-condition Type or constraint ordinal
\* outside its enumeration makes Load fail
C13_UnknownValueFailsLoad ==
  (LoadReadRoot /\ HoldsUnknownValue) => ~result.ok

\* the IDs of the features of a model, in list order
FeatureIDs(m, hp) == [i \in 1..Len(m.m_features) |-> hp[m.m_features[i]].featureID]

\* the document with another FeatureCount
WithFeatureCount(d, n) == [d EXCEPT !.root = SetAttribute(@, "FeatureCount", n)]

\* C16: Load appends one feature per Feature element, in document order, and
\* succeeds whatever FeatureCount says; FeatureCount changes nothing of the
\* model loaded
C16_OneFeaturePerElement ==
  LoadReadRoot =>
    /\ result.ok
    /\ FeatureIDs(loaded, lheap) =
         [i \in 1..Len(FeatureElements) |-> QueryAttribute(FeatureElements[i], "ID", "")]
    /\ \A n \in 0..MaxList + 1 :
         LET other == LoadDocument(WithFeatureCount(ldoc, n), NewModel)
         IN other.ok /\ FeatureIDs(other.model, other.heap) = FeatureIDs(loaded, lheap)

\* the references the loaded features hold
LoadedReferences ==
  UNION {LET f == lheap[loaded.m_features[i]]
         IN {f.referencePlane, f.endCondition1.referenceEntity,
             f.axis.referenceEntity}
         : i \in 1..Len(loaded.m_features)} \ {NoRef}

\* C20: every reference a feature holds after Load is of the variant its
\* refType names
C20_LoadedKindMatchesVariant ==
  (last.op = "Load" /\ result.ok) =>
    \A r \in LoadedReferences : r.cls = VariantOf(r.refType)

-----------------------------------------------------------------------------
(* Properties of saving what was loaded *)

\* every entry of the model's list is a feature, and no two share a featureID
NoDuplicateIDs ==
  /\ \A i \in 1..Len(model.m_features) : model.m_features[i] # Null
  /\ \A i, j \in 1..Len(model.m_features) :
       heap[model.m_features[i]].featureID = heap[model.m_features[j]].featureID
         => i = j

\* the last three calls saved the model, loaded the file into a fresh model
\* and saved the loaded model
Resaved ==
  /\ last.op = "SaveLoaded" /\ result.ok
  /\ ldoc.exists /\ ldoc = SaveDocument(model, heap)
  /\ LET r == LoadDocument(ldoc, NewModel)
     IN loaded = r.model /\ lheap = r.heap

\* C14: for a model with no duplicate featureIDs, the document written by
\* saving the model loaded from its file equals the document first written
C14_ResaveSameText ==
  (Resaved /\ NoDuplicateIDs) => doc = ldoc


-----------------------------------------------------------------------------
(* Properties of GenerateUUID under threads *)

\* the IDs returned so far, each with the thread and the position it has there
Returned ==
  {p \in Threads \X (1..MaxCalls) : p[2] <= Len(threads[p[1]].ids)}

\* C18: under any interleaving of GenerateUUID calls from several threads the
\* IDs returned are pairwise distinct, as are the values fetched by calls
\* still running, and the counter has advanced by one for every call begun
C18_DistinctIDsUnderThreads ==
  /\ \A p, q \in Returned :
       threads[p[1]].ids[p[2]] = threads[q[1]].ids[q[2]] => p = q
  /\ \A t \in Threads, p \in Returned :
       threads[t].pc = "fetched" =>
         GenerateUUID(threads[t].fetched) # threads[p[1]].ids[p[2]]
  /\ \A t, u \in Threads :
       (threads[t].pc = "fetched" /\ threads[u].pc = "fetched" /\ t # u)
         => threads[t].fetched # threads[u].fetched
  /\ counter = CallsMade(threads)

\* two threads are both inside GenerateUUID, each having returned an ID
\* before, and the counter stands at four
C18_TwoCallsInFlight ==
  /\ \A t \in {1, 2} : threads[t].pc = "fetched" /\ Len(threads[t].ids) >= 1
  /\ counter = 4


-----------------------------------------------------------------------------
(* Properties of the list of features *)

\* C19: after any sequence of AddFeature and Build() calls, Build() twice on
\* one builder included, no feature object occurs at two positions of the list
C19_AppendedOnce ==
  \A i, j \in 1..Len(model.m_features) :
    model.m_features[i] = model.m_features[j] => i = j

-----------------------------------------------------------------------------
(* Properties of SketchBuilder *)

SegmentAdders == {"AddLine", "AddCircle", "AddArc", "AddPoint"}

\* C21: after any sequence of AddLine, AddCircle, AddArc and AddPoint calls on
\* a SketchBuilder, failed calls included, the localIDs of its sketch's
\* segments are pairwise distinct, and a call that succeeded returned the
\* localID of the segment it appended last
C21_LocalIDsDistinct ==
  /\ \A b \in builders :
       \A i, j \in 1..Len(heap[b].segments) :
         heap[b].segments[i].localID = heap[b].segments[j].localID => i = j
  /\ (last.op \in SegmentAdders /\ last.threw = "none") =>
       /\ heap[last.h].segments # <<>>
       /\ last.what = heap[last.h].segments[Len(heap[last.h].segments)].localID

\* a call failed on a builder that holds two segments of different kinds
C21_FailedCallBetweenSegments ==
  /\ last.op \in SegmentAdders /\ last.threw # "none"
  /\ Len(heap[last.h].segments) = 2
  /\ heap[last.h].segments[1].type # heap[last.h].segments[2].type

-----------------------------------------------------------------------------
(* Properties of the standard IDs *)

\* the ID is the standard one of the reference's own datum kind
IsStandardFor(ref) ==
  \/ ref.cls = "CRefPlane" /\ IsStandardPlane(ref.targetFeatureID)
  \/ ref.cls = "CRefAxis" /\ IsStandardAxis(ref.targetFeatureID)
  \/ ref.cls = "CRefPoint" /\ IsStandardPoint(ref.targetFeatureID)

\* the reference the last call stored in its builder's feature
StoredReference ==
  CASE last.op = "SetReferencePlane" -> heap[last.h].referencePlane
    [] last.op = "SetEndCondition1" -> heap[last.h].endCondition1.referenceEntity
    [] last.op = "SetEndCondition2" -> heap[last.h].endCondition2.referenceEntity
    [] OTHER -> NoRef

ValidatingSetters == {"SetReferencePlane", "SetEndCondition1", "SetEndCondition2"}

-----------------------------------------------------------------------------
(* Properties of the lookup by name *)

\* the sketches of the model that carry the name
SketchesNamed(name) ==
  {h \in Range(model.m_features) :
     heap[h].kind = "Sketch" /\ heap[h].featureName = name}

\* C23: when the model holds a Sketch with the name, SetProfileByName(name)
\* does not throw and sets the profile to a Sketch with that name, whatever
\* other features share the name
C23_ProfileByNameFindsSketch ==
  \A name \in Names :
    (last.op = "SetProfileByName" /\ SketchesNamed(name) # {}) =>
      /\ last.threw = "none"
      /\ heap[last.h].sketchProfile \in SketchesNamed(name)

-----------------------------------------------------------------------------
(* Properties of the axis of a revolve *)

\* C24: after SetAxisFromSketchLine, SetAxisExplicit or SetAxisRef the axis of
\* the revolve is of the variant the call chose: its kind is SketchLine,
\* Explicit or Reference accordingly, and the fields of the other two
\* variants are as in a default-constructed axis
C24_AxisIsOneVariant ==
  LET axis == heap[last.h].axis
  IN /\ last.op = "SetAxisFromSketchLine" =>
          /\ axis.kind = "SketchLine"
          /\ axis.referenceEntity = NoRef
          /\ axis.origin = Zero3 /\ axis.direction = Zero3
     /\ last.op = "SetAxisExplicit" =>
          /\ axis.kind = "Explicit"
          /\ axis.referenceLocalID = "" /\ axis.referenceEntity = NoRef
     /\ last.op = "SetAxisRef" =>
          /\ axis.kind = "Reference"
          /\ axis.referenceLocalID = ""
          /\ axis.origin = Zero3 /\ axis.direction = Zero3

-----------------------------------------------------------------------------
(* Properties of Save followed by Load, kind by kind *)

\* the positions of the model's list that hold a feature of the kind
Positions(kind) ==
  {i \in 1..Len(model.m_features) : heap[model.m_features[i]].kind = kind}

\* the feature Load made for the position, a default feature if it made none
LoadedAt(i) ==
  IF i <= Len(loaded.m_features) THEN lheap[loaded.m_features[i]]
  ELSE CFeature("null")

\* C25: for an Extrude, Save followed by Load preserves both end conditions:
\* the second is present after Load exactly when it was present before Save,
\* and type, depth, offset, hasOffset, both flip flags and the reference
\* entity of each are the saved ones
C25_EndConditionsRoundTrip ==
  LoadedWhatModelSaves =>
    \A i \in Positions("Extrude") :
      LET saved == heap[model.m_features[i]]
      IN /\ LoadedAt(i).kind = "Extrude"
         /\ EndConditionEq(LoadedAt(i).endCondition1, saved.endCondition1)
         /\ EndConditionEq(LoadedAt(i).endCondition2, saved.endCondition2)

\* C26: for a Sketch, Save followed by Load yields the same number of segments
\* in the same order, each of the same kind, localID, construction flag and
\* kind-specific fields
C26_SegmentsRoundTrip ==
  LoadedWhatModelSaves =>
    \A i \in Positions("Sketch") :
      LET saved == heap[model.m_features[i]]
      IN /\ LoadedAt(i).kind = "Sketch"
         /\ Len(LoadedAt(i).segments) = Len(saved.segments)
         /\ \A k \in 1..Len(saved.segments) :
              SegEq(LoadedAt(i).segments[k], saved.segments[k])

\* C27: for a Revolve, Save followed by Load preserves profileSketchID, the
\* angle kind with both angles, and the axis: kind, referenced local ID,
\* origin, direction and reference entity
C27_RevolveRoundTrip ==
  LoadedWhatModelSaves =>
    \A i \in Positions("Revolve") :
      LET saved == heap[model.m_features[i]]
          made == LoadedAt(i)
      IN /\ made.kind = "Revolve"
         /\ made.profileSketchID = saved.profileSketchID
         /\ made.angleKind = saved.angleKind
         /\ NearlyEqual(made.primaryAngle, saved.primaryAngle)
         /\ NearlyEqual(made.secondaryAngle, saved.secondaryAngle)
         /\ made.axis.kind = saved.axis.kind
         /\ made.axis.referenceLocalID = saved.axis.referenceLocalID
         /\ PointEq(made.axis.origin, saved.axis.origin)
         /\ PointEq(made.axis.direction, saved.axis.direction)
         /\ RefEq(made.axis.referenceEntity, saved.axis.referenceEntity)


-----------------------------------------------------------------------------
(* Properties of the three lookups by ID *)

\* the IDs features carry, and one no feature carries
LookupIDs == {heap[h].featureID : h \in Handles} \cup {"DP-404"}

\* C28: the lookup in the hash index and the scans of the list return the same
\* feature: GetFeatureIndexByID(id) is >= 0 exactly when GetFeature(id) is
\* non-null, the list entry at that index is the object GetFeature(id) returns,
\* and ModelAccessor::GetFeatureByID(id) wraps that object
C28_LookupsAgree ==
  \A id \in LookupIDs :
    LET index == GetFeatureIndexByID(model, heap, id)
    IN /\ (index >= 0) = (GetFeature(model, id) # Null)
       /\ index >= 0 => model.m_features[index + 1] = GetFeature(model, id)
       /\ GetFeatureByID(model, heap, id) = GetFeature(model, id)


-----------------------------------------------------------------------------
(* Properties of a Load that fails *)

\* C29: when Load returns false, for an unreadable file or a missing
\* UnifiedModel root, the unit, the name, the list and both indexes of the
\* model handed to it are as they were before the call
C29_FailedLoadLeavesModel ==
  [][(last'.op = "Load" /\ ~result'.ok) =>
        /\ loaded' = (IF last'.arg = 1 THEN NewModel ELSE loaded)
        /\ last'.arg = 0 => lheap' = lheap]_vars

\* a Load into a model that holds a feature returned false for a file with
\* another root, and for no readable file
C29_FailedLoadIntoFilledModel ==
  /\ last.op = "Load" /\ last.arg = 0 /\ ~result.ok
  /\ loaded.m_features # <<>> /\ loaded.unit = "INCH"
  /\ ldoc.exists

-----------------------------------------------------------------------------
(* Properties of feature IDs across processes *)

\* the features of the model that Load made: no builder of this process holds
\* them
LoadedFeatures == Range(model.m_features) \ builders

\* C30: after Load of a saved document followed by Build() of new features in
\* a new process, no featureID a builder assigned equals the featureID of a
\* loaded feature, and the loaded features carry the IDs of the document
C30_IDsUniqueAcrossLoad ==
  /\ \A b \in builders \cap Range(model.m_features), h \in LoadedFeatures :
       heap[b].featureID # heap[h].featureID
  /\ (last.op = "LoadModel" /\ result.ok) =>
       FeatureIDs(model, heap) =
         [i \in 1..Len(ChildElements(ldoc.root, "Feature")) |->
            QueryAttribute(ChildElements(ldoc.root, "Feature")[i], "ID", "")]

====
